---- MODULE Spec2Model ----
(***************************************************************************)
(* A model of scripts/app_updater.py: the version comparator, the tracking *)
(* key builder, the variant classifier, the per-page scraper and the run   *)
(* loop of main() that merges the update records into the version ledger.  *)
(*                                                                         *)
(* Python strings are TLA+ strings; a character is a string of length 1.   *)
(* Python's None is the reserved string None, which no input contains.     *)
(***************************************************************************)
EXTENDS Integers, Sequences, FiniteSets, TLC

(***************************************************************************)
(* Characters and Python's str primitives                                  *)
(***************************************************************************)

None == "<None>"

\* The characters of the inputs, in code point order (str comparison is by
\* code point).
OrdTable == " ()-./0123456789:ABCDEFGHIJKLMNOPQRSTUVWXYZ_abcdefghijklmnopqrstuvwxyz"

CharAt(s, i) == SubSeq(s, i, i)

Chars == {CharAt(OrdTable, i) : i \in 1..Len(OrdTable)}

Ord == [c \in Chars |-> CHOOSE i \in 1..Len(OrdTable) : CharAt(OrdTable, i) = c]

UpperLetters == "ABCDEFGHIJKLMNOPQRSTUVWXYZ"

LowerLetters == "abcdefghijklmnopqrstuvwxyz"

DigitChars == {"0", "1", "2", "3", "4", "5", "6", "7", "8", "9"}

UpperSet == {CharAt(UpperLetters, i) : i \in 1..26}

LowerSet == {CharAt(LowerLetters, i) : i \in 1..26}

LowerChar == [c \in Chars |->
                IF c \in UpperSet
                THEN CharAt(LowerLetters, CHOOSE i \in 1..26 : CharAt(UpperLetters, i) = c)
                ELSE c]

\* [a-zA-Z0-9]
IsAlnum(c) == c \in DigitChars \cup UpperSet \cup LowerSet

\* \w of the re module, on the characters of the inputs
IsWord(c) == IsAlnum(c) \/ c = "_"

\* a value the statements before have computed: the statements of the code
\* run in their order, each on values and not on expressions
\* the characters of s at the positions lo..hi that are not in removed
RECURSIVE Without(_, _, _, _)
Without(s, removed, lo, hi) ==
    IF lo > hi THEN ""
    ELSE IF lo = hi THEN (IF lo \in removed THEN "" ELSE CharAt(s, lo))
    ELSE Without(s, removed, lo, (lo + hi) \div 2)
            \o Without(s, removed, (lo + hi) \div 2 + 1, hi)

\* the least and the greatest position of a non-empty set of positions
First(positions) == CHOOSE p \in positions : \A q \in positions : p <= q

Last(positions) == CHOOSE p \in positions : \A q \in positions : q <= p

\* the first position of lo..hi whose character is not in cs, hi + 1 if none
RECURSIVE FirstOutside(_, _, _, _)
FirstOutside(s, cs, lo, hi) ==
    LET Or(left) == IF left <= (lo + hi) \div 2 THEN left
                    ELSE FirstOutside(s, cs, (lo + hi) \div 2 + 1, hi)
    IN  IF lo > hi THEN lo
        ELSE IF lo = hi THEN (IF CharAt(s, lo) \in cs THEN lo + 1 ELSE lo)
        ELSE Or(FirstOutside(s, cs, lo, (lo + hi) \div 2))

\* the last position of lo..hi whose character is not in cs, lo - 1 if none
RECURSIVE LastOutside(_, _, _, _)
LastOutside(s, cs, lo, hi) ==
    LET Or(right) == IF right > (lo + hi) \div 2 THEN right
                     ELSE LastOutside(s, cs, lo, (lo + hi) \div 2)
    IN  IF lo > hi THEN hi
        ELSE IF lo = hi THEN (IF CharAt(s, lo) \in cs THEN lo - 1 ELSE lo)
        ELSE Or(LastOutside(s, cs, (lo + hi) \div 2 + 1, hi))

\* the position after the longest run of characters of cs that starts at p
RunEnd(s, p, cs) == FirstOutside(s, cs, p, Len(s))

RECURSIVE lower(_)
lower(s) ==
    IF s = "" THEN ""
    ELSE IF Len(s) = 1 THEN LowerChar[s]
    ELSE lower(SubSeq(s, 1, Len(s) \div 2)) \o lower(SubSeq(s, Len(s) \div 2 + 1, Len(s)))

\* a < b for two str values
StrLess(a, b) ==
    \E i \in 1..Len(b) :
        /\ i - 1 <= Len(a)
        /\ SubSeq(a, 1, i - 1) = SubSeq(b, 1, i - 1)
        /\ i > Len(a) \/ Ord[CharAt(a, i)] < Ord[CharAt(b, i)]

\* a > b for two str values
StrGreater(a, b) == StrLess(b, a)

\* x is None: the empty string taken for a value
IsNone(x) == x = None

\* bool(x) is False: None and the empty string
Falsy(x) == x = None \/ x = ""

\* s.lstrip(cs)
LStrip(s, cs) ==
    LET From(p) == IF p > Len(s) THEN "" ELSE SubSeq(s, p, Len(s))
    IN  IF s = "" THEN "" ELSE From(FirstOutside(s, cs, 1, Len(s)))

\* s.rstrip(cs)
RStrip(s, cs) ==
    LET Upto(p) == IF p < 1 THEN "" ELSE SubSeq(s, 1, p)
    IN  IF s = "" THEN "" ELSE Upto(LastOutside(s, cs, 1, Len(s)))

\* s.strip(cs)
Strip(s, cs) == RStrip(LStrip(s, cs), cs)

\* s[p:p+len(w)] == w, p counted from 1
StartsWithAt(s, p, w) == p + Len(w) - 1 <= Len(s) /\ SubSeq(s, p, p + Len(w) - 1) = w

EndsWith(s, w) == Len(w) <= Len(s) /\ SubSeq(s, Len(s) - Len(w) + 1, Len(s)) = w

\* the position after the longest run of digits that starts at p
DigitsEnd(s, p) == RunEnd(s, p, DigitChars)

DigitVal == [c \in DigitChars |-> Ord[c] - Ord["0"]]

\* int(s) for a run of digits; the empty run counts 0
RECURSIVE IntOf(_)
IntOf(s) ==
    IF s = "" THEN 0
    ELSE 10 * IntOf(SubSeq(s, 1, Len(s) - 1)) + DigitVal[CharAt(s, Len(s))]

(***************************************************************************)
(* packaging.version.parse: the release-version grammar and its ordering.  *)
(* An epoch needs "!" and a local segment "+": the version extractor never *)
(* yields either character, so both segments are absent in every version   *)
(* the program compares.                                                   *)
(***************************************************************************)

SepChars == {"-", "_", "."}

\* pre_l, in the order the pattern tries its alternatives
PreWords == <<"alpha", "a", "beta", "b", "preview", "pre", "c", "rc">>

\* alpha -> a, beta -> b, c / pre / preview -> rc; a < b < rc
PreRank == [w \in {"alpha", "a", "beta", "b", "preview", "pre", "c", "rc"} |->
              IF w \in {"alpha", "a"} THEN 1 ELSE IF w \in {"beta", "b"} THEN 2 ELSE 3]

\* post_l, in the order the pattern tries its alternatives
PostWords == <<"post", "rev", "r">>

\* the position after one optional separator at p
SkipSep(s, p) == IF p <= Len(s) /\ CharAt(s, p) \in SepChars THEN p + 1 ELSE p

\* the first word of ws that occurs at p, "" when none does
FirstWordAt(s, p, ws) ==
    LET hits == {i \in 1..Len(ws) : StartsWithAt(s, p, ws[i])}
    IN  IF hits = {} THEN "" ELSE ws[CHOOSE i \in hits : \A j \in hits : i <= j]

\* the position after [0-9]+(?:\.[0-9]+)* matched at p (p itself: no match)
RECURSIVE ReleaseEnd(_, _)
ReleaseEnd(s, p) ==
    LET e == DigitsEnd(s, p)
    IN  IF e = p THEN p
        ELSE IF e < Len(s) /\ CharAt(s, e) = "." /\ CharAt(s, e + 1) \in DigitChars
             THEN ReleaseEnd(s, e + 1)
             ELSE e

\* the numbers of the release segment s[p..e-1]
RECURSIVE ReleaseNums(_, _, _)
ReleaseNums(s, p, e) ==
    IF p >= e THEN <<>>
    ELSE LET d == DigitsEnd(s, p)
         IN  <<IntOf(SubSeq(s, p, d - 1))>> \o ReleaseNums(s, d + 1, e)

\* the release tuple of the comparison key: trailing zeros dropped
RECURSIVE StripTrailingZeros(_)
StripTrailingZeros(r) ==
    IF r # <<>> /\ r[Len(r)] = 0 THEN StripTrailingZeros(SubSeq(r, 1, Len(r) - 1)) ELSE r

\* a word, one optional separator and an optional number; the end position
\* and the number
NumberedSegment(s, q, w) ==
    LET Number(a, e) == [end |-> e, n |-> IntOf(SubSeq(s, a, e - 1))]
        At(a) == Number(a, DigitsEnd(s, a))
    IN  At(SkipSep(s, q + Len(w)))

InvalidVersion == [valid |-> FALSE, release |-> <<>>, rest |-> <<>>]

\* the pre group matched after the release, which ends before re: its word
\* ("" when the group is absent), its number and the position after it
PreSegment(s, re) ==
    LET Segment(pq, pw) ==
            IF pw = "" THEN [word |-> "", n |-> 0, end |-> re]
            ELSE [word |-> pw] @@ NumberedSegment(s, pq, pw)
        At(pq) == Segment(pq, FirstWordAt(s, pq, PreWords))
    IN  At(SkipSep(s, re))

\* the post group matched at pe: -N, or a word with an optional number
PostSegment(s, pe) ==
    LET Segment(oq, ow) ==
            IF pe < Len(s) /\ CharAt(s, pe) = "-" /\ CharAt(s, pe + 1) \in DigitChars
            THEN [word |-> "-"] @@ NumberedSegment(s, pe, "-")
            ELSE IF ow = "" THEN [word |-> "", n |-> 0, end |-> pe]
            ELSE [word |-> ow] @@ NumberedSegment(s, oq, ow)
        At(oq) == Segment(oq, FirstWordAt(s, oq, PostWords))
    IN  At(SkipSep(s, pe))

\* the dev group matched at oe
DevSegment(s, oe) ==
    LET At(dq) ==
            IF StartsWithAt(s, dq, "dev")
            THEN [word |-> "dev"] @@ NumberedSegment(s, dq, "dev")
            ELSE [word |-> "", n |-> 0, end |-> oe]
    IN  At(SkipSep(s, oe))

(* _cmpkey after the release, with its infinities as ranks:                *)
(* <<pre rank, pre n, post?, post n, dev?, dev n>>                          *)
CmpKeyRest(pre, post, dev) ==
    (IF pre.word # "" THEN <<PreRank[pre.word], pre.n>>
     ELSE IF post.word = "" /\ dev.word # "" THEN <<0, 0>>
     ELSE <<4, 0>>)
    \o (IF post.word # "" THEN <<1, post.n>> ELSE <<0, 0>>)
    \o (IF dev.word # "" THEN <<0, dev.n>> ELSE <<1, 0>>)

(* Version(s): valid is FALSE where the constructor raises InvalidVersion. *)
VersionMade(s, p0, re, pre, post, dev) ==
    IF re = p0 \/ dev.end # Len(s) + 1 THEN InvalidVersion
    ELSE [valid |-> TRUE,
          release |-> StripTrailingZeros(ReleaseNums(s, p0, re)),
          rest |-> CmpKeyRest(pre, post, dev)]

VersionAfterPost(s, p0, re, pre, post) ==
    VersionMade(s, p0, re, pre, post, DevSegment(s, post.end))

VersionAfterPre(s, p0, re, pre) ==
    VersionAfterPost(s, p0, re, pre, PostSegment(s, pre.end))

VersionAfterRelease(s, p0, re) == VersionAfterPre(s, p0, re, PreSegment(s, re))

VersionFrom(s, p0) == VersionAfterRelease(s, p0, ReleaseEnd(s, p0))

VersionStripped(s) == VersionFrom(s, IF StartsWithAt(s, 1, "v") THEN 2 ELSE 1)

parse(version) == VersionStripped(lower(Strip(version, {" "})))

\* a < b for two tuples of integers
TupleLess(a, b) ==
    \E i \in 1..Len(b) :
        /\ i - 1 <= Len(a)
        /\ SubSeq(a, 1, i - 1) = SubSeq(b, 1, i - 1)
        /\ i > Len(a) \/ a[i] < b[i]

\* Version.__lt__: the comparison keys in order
VersionLess(a, b) ==
    IF a.release # b.release THEN TupleLess(a.release, b.release)
    ELSE TupleLess(a.rest, b.rest)

VersionGreater(a, b) == VersionLess(b, a)

(***************************************************************************)
(* compare_versions                                                        *)
(***************************************************************************)

\* what a call hands back: a value, or an exception that leaves the function
Return(v) == [raised |-> FALSE, value |-> v]

Raise == [raised |-> TRUE, value |-> FALSE]

\* current_v_str >= last_v_str: the inequality of the raw strings left out
StringCompareWithoutInequality(current_v_str, last_v_str) ==
    ~StrLess(current_v_str, last_v_str)

\* current_v_str != last_v_str and current_v_str > last_v_str
StringCompare(current_v_str, last_v_str) ==
    current_v_str # last_v_str /\ StrGreater(current_v_str, last_v_str)

\* lines 95-109 without the branch for equal versions
try_compare_without_tie_break(current_v_str, last_v_str, parsed_current, parsed_last) ==
    IF ~parsed_current.valid \/ ~parsed_last.valid
    THEN Return(StringCompare(current_v_str, last_v_str))
    ELSE Return(VersionGreater(parsed_current, parsed_last))

\* lines 95-100 without the handlers of lines 101-109
try_compare_without_except(current_v_str, last_v_str, parsed_current, parsed_last) ==
    IF ~parsed_current.valid \/ ~parsed_last.valid THEN Raise
    ELSE IF VersionGreater(parsed_current, parsed_last) THEN Return(TRUE)
    ELSE IF VersionLess(parsed_current, parsed_last) THEN Return(FALSE)
    ELSE Return(StringCompare(current_v_str, last_v_str))

\* the try statement of lines 95-109, the two strings parsed
try_compare(current_v_str, last_v_str, parsed_current, parsed_last) ==
    IF ~parsed_current.valid \/ ~parsed_last.valid
    THEN \* except InvalidVersion
         Return(StringCompare(current_v_str, last_v_str))
    ELSE IF VersionGreater(parsed_current, parsed_last) THEN Return(TRUE)
    ELSE IF VersionLess(parsed_current, parsed_last) THEN Return(FALSE)
    ELSE Return(StringCompare(current_v_str, last_v_str))

compare_versions(current_v_str, last_v_str) ==
    IF Falsy(current_v_str) THEN Return(FALSE)
    ELSE IF Falsy(last_v_str) \/ last_v_str = "0.0.0" THEN Return(TRUE)
    ELSE try_compare(current_v_str, last_v_str, parse(current_v_str), parse(last_v_str))

(***************************************************************************)
(* sanitize_text_for_tracking_id                                           *)
(***************************************************************************)

\* the characters of s that are in keep, in order
KeepChars(s, keep) ==
    LET Cut(removed) == IF removed = {} THEN s ELSE Without(s, removed, 1, Len(s))
    IN  IF s = "" THEN "" ELSE Cut({p \in 1..Len(s) : CharAt(s, p) \notin keep})

\* re.sub(<one or more characters of run>, '_', s) for the positions lo..hi
\* of s: "_" for the first character of a run, nothing for the others
RECURSIVE CollapseRunsBetween(_, _, _, _)
CollapseRunsBetween(s, run, lo, hi) ==
    IF lo > hi THEN ""
    ELSE IF lo = hi
         THEN (IF CharAt(s, lo) \notin run THEN CharAt(s, lo)
               ELSE IF lo > 1 /\ CharAt(s, lo - 1) \in run THEN ""
               ELSE "_")
    ELSE CollapseRunsBetween(s, run, lo, (lo + hi) \div 2)
            \o CollapseRunsBetween(s, run, (lo + hi) \div 2 + 1, hi)

\* re.sub(<one or more characters of run>, '_', s)
CollapseRuns(s, run) == IF s = "" THEN "" ELSE CollapseRunsBetween(s, run, 1, Len(s))

\* [a-z0-9-_]
TrackingIdChars == LowerSet \cup DigitChars \cup {"-", "_"}

\* the space kept as a word break: one more character of a run that
\* becomes "_"
sanitize_text_keeping_word_breaks(text) ==
    IF Falsy(text) THEN ""
    ELSE Strip(CollapseRuns(KeepChars(lower(Strip(text, {" "})),
                                      TrackingIdChars \cup {" "}),
                            {"-", "_", " "}),
               {"_"})

\* The en dash and the em dash that line 114 replaces are not among the
\* characters of the inputs.
sanitize_text_for_tracking_id(text) ==
    IF Falsy(text) THEN ""
    ELSE LET lowered == lower(Strip(text, {" "}))
             kept == KeepChars(lowered, TrackingIdChars)
         IN  Strip(CollapseRuns(kept, {"-", "_"}), {"_"})

(***************************************************************************)
(* extract_version_from_text_or_url                                        *)
(***************************************************************************)

\* the position after the longest run of [a-zA-Z0-9] that starts at p
AlnumEnd(s, p) == RunEnd(s, p, DigitChars \cup UpperSet \cup LowerSet)

\* a pattern without its lookbehind
LookbehindLeftOut(s, p) == TRUE

\* (?<![\w.-]) before position p
LookbehindOk(s, p) == p = 1 \/ ~(IsWord(CharAt(s, p - 1)) \/ CharAt(s, p - 1) \in {".", "-"})

\* (?![.\w]) at position p
LookaheadOk(s, p) == p > Len(s) \/ ~(IsWord(CharAt(s, p)) \/ CharAt(s, p) = ".")

\* the position after at most max greedy repetitions of \.\d+ from p
RECURSIVE DotGroupsEnd(_, _, _)
DotGroupsEnd(s, p, max) ==
    IF max > 0 /\ p < Len(s) /\ CharAt(s, p) = "." /\ CharAt(s, p + 1) \in DigitChars
    THEN DotGroupsEnd(s, DigitsEnd(s, p + 1), max - 1)
    ELSE p

(* (?:(?:[-._]?[a-zA-Z0-9]+)+)?(?![.\w]) from p, by the matcher's search:   *)
(* the longest token first, its continuations before the token alone.  A   *)
(* token cut inside an alphanumeric run only leads to the continuations of *)
(* the whole run, so the search succeeds at a run's end or not at all.     *)
(* The end position of the first success, 0 when there is none.            *)
RECURSIVE SuffixEnd(_, _)
SuffixEnd(s, p) ==
    LET t == IF p <= Len(s) /\ IsAlnum(CharAt(s, p)) THEN p
             ELSE IF p < Len(s) /\ CharAt(s, p) \in {"-", ".", "_"} /\ IsAlnum(CharAt(s, p + 1))
                  THEN p + 1
                  ELSE 0
        more == IF t = 0 THEN 0 ELSE SuffixEnd(s, AlnumEnd(s, t))
    IN  IF more # 0 THEN more ELSE IF LookaheadOk(s, p) THEN p ELSE 0

\* a match of a pattern: absent, or the span of group 1
NoMatch == [found |-> FALSE, from |-> 0, to |-> 0]

\* VERSION_REGEX_PATTERNS[0] tried at position p
RichMatchAt(s, p) ==
    LET g == IF p <= Len(s) /\ CharAt(s, p) \in {"v", "V"} THEN p + 1 ELSE p
        d == DigitsEnd(s, g)
        e == DotGroupsEnd(s, d, 3)
        r == SuffixEnd(s, e)
    IN  IF LookbehindOk(s, p) /\ d > g /\ e > d /\ r # 0
        THEN [found |-> TRUE, from |-> g, to |-> r - 1]
        ELSE NoMatch

\* VERSION_REGEX_PATTERNS[1] tried at position p
LooseMatchAt(s, p) ==
    LET g == IF p <= Len(s) /\ CharAt(s, p) \in {"v", "V"} THEN p + 1 ELSE p
        d == DigitsEnd(s, g)
        e == DotGroupsEnd(s, d, 2)
    IN  IF LookbehindOk(s, p) /\ d > g /\ e > d /\ LookaheadOk(s, e)
        THEN [found |-> TRUE, from |-> g, to |-> e - 1]
        ELSE NoMatch

\* the position after (?:[.-]?[a-zA-Z0-9]+)* from p
RECURSIVE FallbackTokensEnd(_, _)
FallbackTokensEnd(s, p) ==
    IF p <= Len(s) /\ IsAlnum(CharAt(s, p)) THEN FallbackTokensEnd(s, AlnumEnd(s, p))
    ELSE IF p < Len(s) /\ CharAt(s, p) \in {".", "-"} /\ IsAlnum(CharAt(s, p + 1))
         THEN FallbackTokensEnd(s, AlnumEnd(s, p + 1))
         ELSE p

\* fallback_pattern tried at position p
FallbackMatchAt(s, p) ==
    LET d == DigitsEnd(s, p)
        e == DotGroupsEnd(s, d, 1)
        f == DotGroupsEnd(s, e, 2)
    IN  IF d > p /\ e > d
        THEN [found |-> TRUE, from |-> p, to |-> FallbackTokensEnd(s, f) - 1]
        ELSE NoMatch

\* re.search: the match at the leftmost position that has one
MatchAt(pattern, s, p) ==
    CASE pattern = "rich" -> RichMatchAt(s, p)
      [] pattern = "loose" -> LooseMatchAt(s, p)
      [] pattern = "fallback" -> FallbackMatchAt(s, p)

LeftmostMatch(pattern, s, hits) ==
    IF hits = {} THEN NoMatch ELSE MatchAt(pattern, s, First(hits))

Search(pattern, s) ==
    LeftmostMatch(pattern, s, {p \in 1..Len(s) : MatchAt(pattern, s, p).found})

\* match.group(1).strip("-_ ")
Group1(s, m) == Strip(SubSeq(s, m.from, m.to), {"-", "_", " "})

\* if match: return match.group(1).strip("-_ ")
Returned(s, match) == IF match.found THEN Group1(s, match) ELSE None

\* what the statements before returned, or else what those after do
OrElse(returned, after) == IF returned # None THEN returned ELSE after

ExtractedIn(text, url) ==
    OrElse(Returned(text, Search("rich", text)),
    OrElse(Returned(text, Search("loose", text)),
    OrElse(Returned(url, Search("rich", url)),
    OrElse(Returned(url, Search("loose", url)),
    OrElse(Returned(text, Search("fallback", text)),
           Returned(url, Search("fallback", url)))))))

extract_version_from_text_or_url(text_content, url_content) ==
    ExtractedIn(IF Falsy(text_content) THEN "" ELSE text_content,
                IF Falsy(url_content) THEN "" ELSE url_content)

\* the statement of lines 250-265 that returns: one of the searches of
\* VERSION_REGEX_PATTERNS, one of the searches of fallback_pattern, or none
ReturnedIn(text, url) ==
    IF \E pattern \in {"rich", "loose"}, s \in {text, url} : Search(pattern, s).found
    THEN "pattern"
    ELSE IF \E s \in {text, url} : Search("fallback", s).found
         THEN "fallback"
         ELSE "none"

returned_by(text_content, url_content) ==
    ReturnedIn(IF Falsy(text_content) THEN "" ELSE text_content,
               IF Falsy(url_content) THEN "" ELSE url_content)

(***************************************************************************)
(* aggressively_clean_name_for_tracking                                    *)
(***************************************************************************)

\* \s, on the characters of the inputs
IsSpace(c) == c = " "

\* the position after the longest run of \s that starts at p
SpacesEnd(s, p) == RunEnd(s, p, {" "})

\* \b between the characters p - 1 and p of s
WordBoundaryAt(s, p) ==
    (p > 1 /\ IsWord(CharAt(s, p - 1))) # (p <= Len(s) /\ IsWord(CharAt(s, p)))

(* (?:(?:[-._]?[a-zA-Z0-9]+)+)?\b from p, by the matcher's search: the      *)
(* longest token first, its continuations before the token alone; a token  *)
(* cut inside an alphanumeric run has no \b after it.  The end position of *)
(* the first success, 0 when there is none.                                *)
RECURSIVE CleaningSuffixEnd(_, _)
CleaningSuffixEnd(s, p) ==
    LET t == IF p <= Len(s) /\ IsAlnum(CharAt(s, p)) THEN p
             ELSE IF p < Len(s) /\ CharAt(s, p) \in {"-", ".", "_"} /\ IsAlnum(CharAt(s, p + 1))
                  THEN p + 1
                  ELSE 0
        more == IF t = 0 THEN 0 ELSE CleaningSuffixEnd(s, AlnumEnd(s, t))
    IN  IF more # 0 THEN more ELSE IF WordBoundaryAt(s, p) THEN p ELSE 0

\* (?:\.\d+){1,max} from d and what follows it, the most groups first:
\* the end position of the first success, 0 when there is none
RECURSIVE CleaningGroupsEnd(_, _, _, _)
CleaningGroupsEnd(s, d, max, with_suffix) ==
    LET Tried(e) ==
            LET Rest(r) == IF r # 0 THEN r ELSE CleaningGroupsEnd(s, d, max - 1, with_suffix)
            IN  IF e = d THEN 0
                ELSE Rest(IF with_suffix THEN CleaningSuffixEnd(s, e)
                          ELSE IF WordBoundaryAt(s, e) THEN e ELSE 0)
    IN  IF max = 0 THEN 0 ELSE Tried(DotGroupsEnd(s, d, max))

\* (?:\.\d+)*\b from d, the most groups first
RECURSIVE BareNumberEnd(_, _)
BareNumberEnd(s, d) ==
    LET Here == IF WordBoundaryAt(s, d) THEN d ELSE 0
        Longer(e) ==
            LET Rest(r) == IF r # 0 THEN r ELSE Here
            IN  IF e = d THEN Here ELSE Rest(BareNumberEnd(s, e))
    IN  Longer(DotGroupsEnd(s, d, 1))

\* the patterns of VERSION_PATTERNS_FOR_CLEANING, in their order
VERSION_PATTERNS_FOR_CLEANING == <<"rich", "loose", "bare">>

\* the position after the match of a pattern of VERSION_PATTERNS_FOR_CLEANING
\* that starts at p, 0 when there is none
CleaningNumbered(s, g, d, max, with_suffix) ==
    IF d = g THEN 0 ELSE CleaningGroupsEnd(s, d, max, with_suffix)

CleaningFrom(s, g, max, with_suffix) ==
    CleaningNumbered(s, g, DigitsEnd(s, g), max, with_suffix)

\* \s*[vV]?
CleaningPrefixed(s, a, max, with_suffix) ==
    CleaningFrom(s, IF a <= Len(s) /\ CharAt(s, a) \in {"v", "V"} THEN a + 1 ELSE a,
                 max, with_suffix)

\* \s+\d+
CleaningBare(s, p, a, d) == IF a = p \/ d = a THEN 0 ELSE BareNumberEnd(s, d)

CleaningSpaced(pattern, s, p, a) ==
    CASE pattern = "rich" -> CleaningPrefixed(s, a, 3, TRUE)
      [] pattern = "loose" -> CleaningPrefixed(s, a, 2, FALSE)
      [] pattern = "bare" -> CleaningBare(s, p, a, DigitsEnd(s, a))

CleaningMatchEnd(pattern, s, p) == CleaningSpaced(pattern, s, p, SpacesEnd(s, p))

\* the positions of s that the matches of a pattern of
\* VERSION_PATTERNS_FOR_CLEANING cover from position p on: the leftmost match,
\* then the matches after its end
RECURSIVE VersionMatches(_, _, _)
VersionsFrom(pattern, s, b, e) == (b..(e - 1)) \cup VersionMatches(pattern, s, e)

VersionsAt(pattern, s, starts) ==
    IF starts = {} THEN {}
    ELSE VersionsFrom(pattern, s, First(starts), CleaningMatchEnd(pattern, s, First(starts)))

VersionMatches(pattern, s, p) ==
    VersionsAt(pattern, s, {q \in p..Len(s) : CleaningMatchEnd(pattern, s, q) # 0})

\* re.sub(pattern, '', s, flags=re.IGNORECASE), from position p on
RemoveVersionsFrom(pattern, s, p) ==
    LET Cut(removed) == IF removed = {} THEN SubSeq(s, p, Len(s))
                        ELSE Without(s, removed, p, Len(s))
    IN  IF s = "" THEN "" ELSE Cut(VersionMatches(pattern, s, p))

\* re.sub(r'\s+', ' ', s): every \s after a \s goes
CollapseSpaces(s) ==
    LET Cut(removed) == IF removed = {} THEN s ELSE Without(s, removed, 1, Len(s))
    IN  IF s = "" THEN ""
        ELSE Cut({p \in 2..Len(s) : IsSpace(CharAt(s, p)) /\ IsSpace(CharAt(s, p - 1))})

\* .strip("-_ "), then re.sub(r'\s+', ' ', ...).strip("-_ ")
Tidy(s) ==
    LET Collapsed(t) == IF t = "" THEN "" ELSE Strip(t, {"-", "_", " "})
        Stripped(t) == IF t = "" THEN "" ELSE Collapsed(CollapseSpaces(t))
    IN  Stripped(Strip(s, {"-", "_", " "}))

\* the name with no version removed
keep_versions(cleaned_name, i) == cleaned_name

\* lines 125-127: the loop over VERSION_PATTERNS_FOR_CLEANING, from pattern i
RECURSIVE strip_versions(_, _)
VersionsTidied(removed, i) ==
    IF removed = "" THEN "" ELSE strip_versions(Tidy(removed), i + 1)

strip_versions(cleaned_name, i) ==
    IF cleaned_name = "" \/ i > Len(VERSION_PATTERNS_FOR_CLEANING) THEN cleaned_name
    ELSE VersionsTidied(RemoveVersionsFrom(VERSION_PATTERNS_FOR_CLEANING[i],
                                           cleaned_name, 1), i)

\* sorted(list(set(all_keywords_for_aggressive_clean)), key=len, reverse=True):
\* the keywords written in the characters of the inputs.  The order among
\* keywords of one length is the set's iteration order, which the code does
\* not fix; no two keywords of one length overlap, so it does not matter.
sorted_keywords ==
    <<"Armeabi-v7a",
      "Mod-Extra", "Universal", "Arm64-v8a",
      "Mod-Lite", "Unlocked", "Original", "Document",
      "Ad-Free", "Patched", "Premium", "Persian", "English", "Windows", "Archive",
      "x86_64",
      "Arm64", "Armv7", "macOS", "Linux", "Ultra", "Clone", "Image", "Audio", "Video",
      "Beta", "Full", "Lite", "Main", "Data", "Plus", "Text", "Font",
      "Arm", "x86", "Mac", "OSX", "Obb", "Mod", "Pro", "VIP",
      "PC">>

\* the positions of s that the matches of r'\b' + re.escape(kw) + r'\b' cover
\* from position p on; kw and low are the keyword and s in lower case
RECURSIVE KeywordMatches(_, _, _, _)
KeywordMatches(kw, s, low, p) ==
    LET Covered(b) == (b..(b + Len(kw) - 1)) \cup KeywordMatches(kw, s, low, b + Len(kw))
        Leftmost(starts) == IF starts = {} THEN {} ELSE Covered(First(starts))
    IN  Leftmost({q \in p..Len(s) : /\ StartsWithAt(low, q, kw)
                                    /\ WordBoundaryAt(s, q)
                                    /\ WordBoundaryAt(s, q + Len(kw))})

\* re.sub(r'\b' + re.escape(kw) + r'\b', '', s, flags=re.IGNORECASE), from
\* position p on; kw and low are the keyword and s in lower case
RemoveKeywordFrom(kw, s, low, p) ==
    LET Cut(removed) == IF removed = {} THEN SubSeq(s, p, Len(s))
                        ELSE Without(s, removed, p, Len(s))
    IN  IF s = "" THEN "" ELSE Cut(KeywordMatches(kw, s, low, p))

\* lines 136-140: the while loop for one keyword
RECURSIVE strip_keyword(_, _)
strip_keyword(kw, cleaned_name) ==
    LET Again(next) == IF next = cleaned_name THEN cleaned_name ELSE strip_keyword(kw, next)
        Tidied(removed) == IF removed = "" THEN Again("") ELSE Again(Tidy(removed))
        Removed(low) == IF low = "" THEN ""
                        ELSE Tidied(RemoveKeywordFrom(kw, cleaned_name, low, 1))
    IN  Removed(lower(cleaned_name))

\* lines 134-140: the loop over sorted_keywords, for the keywords first to
\* last in their order; no keyword is found in an empty name
RECURSIVE strip_keywords(_, _, _)
strip_keywords(cleaned_name, first, last) ==
    IF cleaned_name = "" \/ first > last THEN cleaned_name
    ELSE strip_keywords(strip_keyword(lower(sorted_keywords[first]), cleaned_name),
                        first + 1, last)

\* lines 134-140 for all of sorted_keywords, seven keywords at a time; no
\* keyword is found in an empty name
Upto42(n) == IF n = "" THEN "" ELSE strip_keywords(n, 36, Len(sorted_keywords))

Upto35(n) == IF n = "" THEN "" ELSE Upto42(strip_keywords(n, 29, 35))

Upto28(n) == IF n = "" THEN "" ELSE Upto35(strip_keywords(n, 22, 28))

Upto21(n) == IF n = "" THEN "" ELSE Upto28(strip_keywords(n, 15, 21))

Upto14(n) == IF n = "" THEN "" ELSE Upto21(strip_keywords(n, 8, 14))

strip_all_keywords(cleaned_name) ==
    IF cleaned_name = "" THEN "" ELSE Upto14(strip_keywords(cleaned_name, 1, 7))

\* re.sub(r'\s*\((?:www\.)?farsroid\.com.*?\)\s*$', '', s, flags=re.IGNORECASE):
\* the credit has to close with the last character before the trailing \s*
RemoveSiteCreditAtEnd(s) ==
    LET Cut(low, body) ==
            LET opens == {p \in 1..Len(body) :
                            \/ StartsWithAt(low, p, "(www.farsroid.com")
                                  /\ p + Len("(www.farsroid.com") <= Len(body)
                            \/ StartsWithAt(low, p, "(farsroid.com")
                                  /\ p + Len("(farsroid.com") <= Len(body)}
            IN  IF body = "" \/ CharAt(body, Len(body)) # ")" \/ opens = {} THEN s
                ELSE RStrip(SubSeq(s, 1, (CHOOSE p \in opens : \A q \in opens : p <= q) - 1),
                            {" "})
    IN  Cut(lower(s), RStrip(s, {" "}))

\* re.sub(r'\s*[-]\s*Farsroid\s*$', '', s, flags=re.IGNORECASE); the en dash
\* and the em dash of the pattern are not among the characters of the inputs
RemoveSiteNameAtEnd(s) ==
    LET Cut(before) ==
            IF before # "" /\ CharAt(before, Len(before)) = "-"
            THEN RStrip(SubSeq(before, 1, Len(before) - 1), {" "})
            ELSE s
        Named(low) ==
            IF EndsWith(low, "farsroid")
            THEN Cut(RStrip(SubSeq(s, 1, Len(low) - Len("farsroid")), {" "}))
            ELSE s
    IN  Named(lower(RStrip(s, {" "})))

\* name_to_clean.split()[0], "" when there is no part
FirstPart(name_to_clean) ==
    LET Upto(t, e) == SubSeq(t, 1, e - 1)
        Of(t) == Upto(t, CHOOSE e \in 1..(Len(t) + 1) :
                            /\ e > Len(t) \/ IsSpace(CharAt(t, e))
                            /\ \A q \in 1..(e - 1) : ~IsSpace(CharAt(t, q)))
    IN  Of(LStrip(name_to_clean, {" "}))

\* lines 146-149
Fallback(name_to_clean, cleaned_name) ==
    IF cleaned_name = "" THEN FirstPart(name_to_clean) ELSE cleaned_name

\* lines 144-145
Ends(name_to_clean, cleaned_name) ==
    IF cleaned_name = "" THEN Fallback(name_to_clean, "")
    ELSE Fallback(name_to_clean,
                  Strip(CollapseSpaces(Strip(cleaned_name, {" ", "-"})), {" "}))

\* line 143
SiteName(name_to_clean, cleaned_name) ==
    IF cleaned_name = "" THEN Fallback(name_to_clean, "")
    ELSE Ends(name_to_clean, Strip(RemoveSiteNameAtEnd(cleaned_name), {" "}))

\* line 142
SiteCredit(name_to_clean, cleaned_name) ==
    IF cleaned_name = "" THEN Fallback(name_to_clean, "")
    ELSE SiteName(name_to_clean, Strip(RemoveSiteCreditAtEnd(cleaned_name), {" "}))

\* lines 129-140
Keywords(name_to_clean, cleaned_name) ==
    IF cleaned_name = "" THEN Fallback(name_to_clean, "")
    ELSE SiteCredit(name_to_clean, strip_all_keywords(cleaned_name))

aggressively_clean_name_for_tracking(name_to_clean) ==
    Keywords(name_to_clean, strip_versions(name_to_clean, 1))

\* lines 311-312
OrUnknown(name) == IF Falsy(name) THEN "UnknownApp" ELSE name

base_app_name_for_tracking_id_of(page_app_name_for_display) ==
    OrUnknown(aggressively_clean_name_for_tracking(page_app_name_for_display))

(***************************************************************************)
(* get_file_extension_from_url                                             *)
(***************************************************************************)

\* w in s
Contains(s, w) == \E p \in 1..(Len(s) - Len(w) + 1) : StartsWithAt(s, p, w)

\* os.path.splitext(name)[1] of a path's last segment: from the last dot,
\* when a character other than a dot stands before it
SplitExt(name) ==
    LET dots == {p \in 1..Len(name) : CharAt(name, p) = "."}
        last == CHOOSE p \in dots : \A q \in dots : q <= p
    IN  IF dots = {} THEN ""
        ELSE IF \E q \in 1..(last - 1) : CharAt(name, q) # "."
             THEN SubSeq(name, last, Len(name))
             ELSE ""

double_extensions == <<".tar.gz", ".tar.bz2", ".tar.xz">>

known_extensions ==
    {".apk", ".zip", ".exe", ".rar", ".xapk", ".apks", ".7z", ".gz", ".bz2", ".xz",
     ".msi", ".dmg", ".pkg", ".deb", ".rpm", ".appimage",
     ".tgz", ".tbz2", ".txz",
     ".jpg", ".jpeg", ".png", ".gif", ".bmp", ".tiff", ".tif", ".webp", ".svg", ".ico",
     ".mp3", ".wav", ".ogg", ".aac", ".flac", ".m4a", ".wma",
     ".mp4", ".mkv", ".avi", ".mov", ".wmv", ".flv", ".webm", ".mpeg", ".mpg",
     ".txt", ".pdf", ".doc", ".docx", ".xls", ".xlsx", ".ppt", ".pptx",
     ".odt", ".ods", ".odp", ".rtf", ".csv", ".html", ".htm", ".xml", ".json", ".md",
     ".ttf", ".otf", ".woff", ".woff2", ".eot"}

\* raw_filename_from_url is the last segment of the download URL's path
get_file_extension_from_url(raw_filename_from_url, combined_text_for_variant) ==
    LET name == lower(raw_filename_from_url)
        doubles == {i \in 1..Len(double_extensions) : EndsWith(name, double_extensions[i])}
        ext_from_url == SplitExt(raw_filename_from_url)
        text == lower(combined_text_for_variant)
    IN  IF doubles # {} THEN double_extensions[CHOOSE i \in doubles : \A j \in doubles : i <= j]
        ELSE IF ext_from_url # "" /\ lower(ext_from_url) \in known_extensions
             THEN lower(ext_from_url)
        ELSE IF Contains(text, "windows") \/ Contains(text, "pc") THEN ".exe"
        ELSE IF Contains(text, "macos") \/ Contains(text, "mac") THEN ".dmg"
        ELSE IF Contains(text, "linux") THEN ".appimage"
        ELSE IF Contains(text, "data") \/ Contains(text, "obb") THEN ".zip"
        ELSE IF Contains(text, "font") THEN ".zip"
        ELSE IF ext_from_url # "" THEN lower(ext_from_url)
        ELSE ".bin"

(***************************************************************************)
(* The variant of a link (scrape_farsroid_page, lines 343-389)             *)
(***************************************************************************)

\* the positions of s that the occurrences of w cover from position p on: the
\* leftmost occurrence, then the occurrences after its end
RECURSIVE RemovedBy(_, _, _)
RemovedBy(s, w, p) ==
    LET Covered(b) == (b..(b + Len(w) - 1)) \cup RemovedBy(s, w, b + Len(w))
        Leftmost(starts) == IF starts = {} THEN {} ELSE Covered(First(starts))
    IN  Leftmost({q \in p..Len(s) : StartsWithAt(s, q, w)})

\* s.replace(w, '')
Remove(s, w) ==
    LET Cut(removed) == IF removed = {} THEN s ELSE Without(s, removed, 1, Len(s))
    IN  IF s = "" THEN "" ELSE Cut(RemovedBy(s, w, 1))

\* re.sub(r'\b\d+\b', '', s) from position p on: a run of digits with no word
\* character on either side goes
RemoveBareNumbers(s, p) ==
    LET Bare(a, e) == /\ a = 1 \/ ~IsWord(CharAt(s, a - 1))
                      /\ e > Len(s) \/ ~IsWord(CharAt(s, e))
        Cut(removed) == IF removed = {} THEN SubSeq(s, p, Len(s))
                        ELSE Without(s, removed, p, Len(s))
    IN  IF s = "" THEN ""
        ELSE Cut({q \in p..Len(s) :
                     /\ CharAt(s, q) \in DigitChars
                     /\ Bare(LastOutside(s, DigitChars, p, q) + 1, DigitsEnd(s, q))})

\* lines 345-346; the phrases in Persian script are not among the inputs
combined_text_for_link_variant_detection(filename_from_url_decoded, link_text) ==
    LET joined == lower(filename_from_url_decoded) \o " " \o lower(link_text)
        cut == Strip(Remove(joined, "(farsroid.com)"), {" "})
    IN  Strip(RemoveBareNumbers(cut, 1), {" "})

\* the table of lines 348-360, in its order; of the surface forms, those in
\* Latin script (no input holds a character of another script)
variant_keywords_ordered ==
    << <<"Mod-Extra", <<"mod-extra">> >>, <<"Mod-Lite", <<"mod-lite">> >>,
       <<"Ad-Free", <<"ad-free">> >>, <<"Unlocked", <<"unlocked">> >>,
       <<"Patched", <<"patched">> >>, <<"Premium", <<"premium">> >>,
       <<"Ultra", <<"ultra">> >>, <<"Clone", <<"clone">> >>,
       <<"Beta", <<"beta">> >>, <<"Full", <<"full">> >>, <<"Lite", <<"lite">> >>,
       <<"Main", <<"main">> >>, <<"Pro", <<"pro">> >>, <<"VIP", <<"vip">> >>,
       <<"Plus", <<"plus">> >>, <<"Persian", <<"persian">> >>,
       <<"English", <<"english">> >>,
       <<"Arm64-v8a", <<"arm64-v8a", "arm64">> >>,
       <<"Armeabi-v7a", <<"armeabi-v7a", "armv7">> >>,
       <<"x86_64", <<"x86_64">> >>, <<"x86", <<"x86">> >>, <<"Arm", <<"arm">> >>,
       <<"Mod", <<"mod">> >>,
       <<"PC", <<"pc">> >>, <<"Windows", <<"windows">> >>,
       <<"Data", <<"data", "obb">> >> >>

\* re.search(r'\b' + re.escape(pattern) + r'\b', text): every pattern of the
\* table begins and ends with a word character
WordSearch(pattern, text) ==
    \E p \in 1..(Len(text) - Len(pattern) + 1) :
        /\ StartsWithAt(text, p, pattern)
        /\ (p = 1 \/ ~IsWord(CharAt(text, p - 1)))
        /\ (p + Len(pattern) > Len(text) \/ ~IsWord(CharAt(text, p + Len(pattern))))

InSeq(x, seq) == \E i \in 1..Len(seq) : seq[i] = x

\* lines 364-369: one turn of the loop, for entry k of the table
MatchVariant(text, k, link_only_variant_parts) ==
    IF k > Len(variant_keywords_ordered) THEN link_only_variant_parts
    ELSE LET key == variant_keywords_ordered[k][1]
             patterns == variant_keywords_ordered[k][2]
             hit == \E i \in 1..Len(patterns) : WordSearch(patterns[i], text)
             barred == \/ key = "Mod" /\ (InSeq("Mod-Extra", link_only_variant_parts)
                                          \/ InSeq("Mod-Lite", link_only_variant_parts))
                       \/ key = "Lite" /\ InSeq("Mod-Lite", link_only_variant_parts)
         IN  IF hit /\ ~barred /\ ~InSeq(key, link_only_variant_parts)
             THEN Append(link_only_variant_parts, key)
             ELSE link_only_variant_parts

\* the loop of lines 363-369 for the entries first to last of the table, a
\* half of them at a time
RECURSIVE MatchVariantsBetween(_, _, _, _)
MatchVariantsBetween(text, first, last, link_only_variant_parts) ==
    LET Rest(matched) ==
            IF matched = <<>>
            THEN MatchVariantsBetween(text, (first + last) \div 2 + 1, last, <<>>)
            ELSE MatchVariantsBetween(text, (first + last) \div 2 + 1, last, matched)
    IN  IF first > last THEN link_only_variant_parts
        ELSE IF first = last THEN MatchVariant(text, first, link_only_variant_parts)
        ELSE Rest(MatchVariantsBetween(text, first, (first + last) \div 2,
                                       link_only_variant_parts))

\* the loop of lines 363-369 from entry k of the table on
MatchVariants(text, k, link_only_variant_parts) ==
    IF text = "" THEN link_only_variant_parts
    ELSE MatchVariantsBetween(text, k, Len(variant_keywords_ordered),
                              link_only_variant_parts)

\* list.remove(x): the first occurrence goes
RECURSIVE RemoveFirst(_, _)
RemoveFirst(seq, x) ==
    IF seq = <<>> THEN <<>>
    ELSE IF Head(seq) = x THEN Tail(seq)
    ELSE <<Head(seq)>> \o RemoveFirst(Tail(seq), x)

\* lines 374-378
AdjustForExe(link_only_variant_parts, file_extension) ==
    IF file_extension = ".exe"
    THEN LET noPC == IF InSeq("PC", link_only_variant_parts)
                     THEN RemoveFirst(link_only_variant_parts, "PC")
                     ELSE link_only_variant_parts
         IN  IF ~InSeq("Windows", noPC) THEN Append(noPC, "Windows") ELSE noPC
    ELSE link_only_variant_parts

SeqToSet(seq) == {seq[i] : i \in 1..Len(seq)}

\* sorted(list(set)) of str values
RECURSIVE Sorted(_)
Sorted(set) ==
    IF set = {} THEN <<>>
    ELSE LET least == CHOOSE x \in set : \A y \in set \ {x} : StrLess(x, y)
         IN  <<least>> \o Sorted(set \ {least})

\* "-".join(seq)
RECURSIVE DashJoin(_)
DashJoin(seq) ==
    IF seq = <<>> THEN ""
    ELSE IF Len(seq) = 1 THEN seq[1]
    ELSE seq[1] \o "-" \o DashJoin(Tail(seq))

ArchKeywords == {"Arm64-v8a", "Armeabi-v7a", "x86_64", "x86", "Arm"}

\* lines 380-389 without sorted(list(set(...))): the tags joined as they stand
variant_final_without_sorting(link_only_variant_parts, file_extension) ==
    IF link_only_variant_parts # <<>> THEN DashJoin(link_only_variant_parts)
    ELSE IF file_extension = ".apk" THEN "Universal"
    ELSE IF file_extension = ".exe" THEN "Windows"
    ELSE "Default"

\* lines 380-383 without the defaults of lines 385-389
variant_final_without_defaults(link_only_variant_parts, file_extension) ==
    DashJoin(Sorted(SeqToSet(link_only_variant_parts)))

\* lines 380-389, from the tags as they stand after lines 374-378
variant_final_for_display_tracking(link_only_variant_parts, file_extension) ==
    LET arch_found_in_link_variants ==
            \E a \in ArchKeywords : InSeq(a, link_only_variant_parts)
        temp_display_variants == Sorted(SeqToSet(link_only_variant_parts))
        joined == IF temp_display_variants # <<>> THEN DashJoin(temp_display_variants) ELSE ""
    IN  IF joined # "" THEN joined
        ELSE IF file_extension = ".apk" /\ ~arch_found_in_link_variants THEN "Universal"
        ELSE IF file_extension = ".exe" THEN "Windows"
        ELSE "Default"

(***************************************************************************)
(* The tracking key (scrape_farsroid_page, lines 393-408)                  *)
(***************************************************************************)

GenericSuffixes ==
    <<"_default", "_archive", "_image", "_audio", "_video", "_document", "_font">>

\* s.rsplit('_', 1)[0]
BeforeLastUnderscore(s) ==
    LET Before(underscores) ==
            IF underscores = {} THEN s ELSE SubSeq(s, 1, Last(underscores) - 1)
    IN  IF s = "" THEN "" ELSE Before({p \in 1..Len(s) : CharAt(s, p) = "_"})

tracking_id_of(base_app_name_for_tracking_id, variant, file_extension) ==
    LET \* lines 398-401
        Refined(tracking_id) ==
            IF (\E i \in 1..Len(GenericSuffixes) : EndsWith(tracking_id, GenericSuffixes[i]))
               /\ file_extension # ".apk"
            THEN BeforeLastUnderscore(tracking_id)
            ELSE IF EndsWith(tracking_id, "_universal") /\ file_extension # ".apk"
            THEN SubSeq(tracking_id, 1, Len(tracking_id) - Len("_universal"))
            ELSE tracking_id
        \* lines 395-408
        Joined(tracking_id_app_part, tracking_id_variant_part) ==
            IF tracking_id_app_part = "" /\ tracking_id_variant_part # ""
            THEN tracking_id_variant_part
            ELSE IF tracking_id_variant_part = "" /\ tracking_id_app_part # ""
            THEN tracking_id_app_part
            ELSE IF tracking_id_app_part = "" /\ tracking_id_variant_part = ""
            THEN "unknown_app_variant"
            ELSE Refined(Strip(CollapseRuns(lower(tracking_id_app_part \o "_"
                                                  \o tracking_id_variant_part),
                                            {"_"}),
                               {"_"}))
    IN  Joined(sanitize_text_for_tracking_id(base_app_name_for_tracking_id),
               sanitize_text_for_tracking_id(variant))

(***************************************************************************)
(* scrape_farsroid_page                                                    *)
(*                                                                         *)
(* A page is what the document tree answers to the scraper's queries:      *)
(*   page_url, page_app_name_for_display (line 307),                       *)
(*   base_app_name_for_tracking_id (lines 311-312),                        *)
(*   download_box, download_links_ul: whether the element is found,        *)
(*   found_lis: the li.download-link items in document order, each with    *)
(*     link_tag (an a.download-btn is found), href (None: no attribute)    *)
(*     and txt (the text of span.txt, None: no span).                      *)
(* An href is a relative reference of one path segment and a page URL ends *)
(* with "/", so urljoin appends and unquote changes nothing.               *)
(***************************************************************************)

\* urlparse(url).path.split('/')[-1]
LastSegment(url) ==
    LET After(slashes) ==
            IF slashes = {} THEN url
            ELSE SubSeq(url, Last(slashes) + 1, Len(url))
    IN  IF url = "" THEN "" ELSE After({p \in 1..Len(url) : CharAt(url, p) = "/"})

\* the position after a match of \s*\((?:www\.)?farsroid\.com.*?\)\s* that
\* starts at p, 0 when there is none; low is s in lower case
SiteSuffixEnd(s, low, p) ==
    LET a == Len(s) - Len(LStrip(SubSeq(s, p, Len(s)), {" "})) + 1
        b == IF StartsWithAt(low, a, "(www.farsroid.com") THEN a + Len("(www.farsroid.com")
             ELSE IF StartsWithAt(low, a, "(farsroid.com") THEN a + Len("(farsroid.com")
             ELSE 0
        closes == {q \in b..Len(s) : CharAt(s, q) = ")"}
        c == CHOOSE q \in closes : \A r \in closes : q <= r
    IN  IF b = 0 \/ closes = {} THEN 0
        ELSE Len(s) - Len(LStrip(SubSeq(s, c + 1, Len(s)), {" "})) + 1

\* the positions of s that the matches of site_suffix_pattern cover from
\* position p on
RECURSIVE SiteSuffixMatches(_, _, _)
SiteSuffixMatches(s, low, p) ==
    LET Covered(b, e) == (b..(e - 1)) \cup SiteSuffixMatches(s, low, e)
        Leftmost(starts) ==
            IF starts = {} THEN {}
            ELSE Covered(First(starts), SiteSuffixEnd(s, low, First(starts)))
    IN  Leftmost({q \in p..Len(s) : SiteSuffixEnd(s, low, q) # 0})

RemoveSiteSuffixFrom(s, low, p) ==
    LET Cut(removed) == IF removed = {} THEN SubSeq(s, p, Len(s))
                        ELSE Without(s, removed, p, Len(s))
    IN  IF s = "" THEN "" ELSE Cut(SiteSuffixMatches(s, low, p))

\* re.sub(site_suffix_pattern, '', s, flags=re.IGNORECASE)
RemoveSiteSuffix(s) == RemoveSiteSuffixFrom(s, lower(s), 1)

\* lines 413-421
\* lines 419-421
WithExtension(filename_from_url_decoded, file_extension, ext) ==
    Strip(RemoveSiteSuffix(SubSeq(filename_from_url_decoded, 1,
                                  Len(filename_from_url_decoded) - Len(ext))),
          {" "}) \o file_extension

KeptFilename(filename_from_url_decoded, file_extension, suggested_filename) ==
    IF SplitExt(suggested_filename) = ""
    THEN WithExtension(filename_from_url_decoded, file_extension,
                       SplitExt(filename_from_url_decoded))
    ELSE suggested_filename

suggested_filename_of(filename_from_url_decoded, file_extension) ==
    KeptFilename(filename_from_url_decoded, file_extension,
                 Strip(RemoveSiteSuffix(filename_from_url_decoded), {" "}))

\* dict.get(key, default)
Get(dict, key, default) == IF key \in DOMAIN dict THEN dict[key] ELSE default

\* what lines 329-408 derive from one link that has an href
Identified(base_app_name_for_tracking_id, download_url, filename_from_url_decoded,
           current_version, matched, file_extension, link_only_variant_parts, variant) ==
    [download_url |-> download_url,
     current_version |-> current_version,
     matched |-> matched,
     file_extension |-> file_extension,
     link_only_variant_parts |-> link_only_variant_parts,
     variant |-> variant,
     tracking_id |-> tracking_id_of(base_app_name_for_tracking_id, variant,
                                    file_extension),
     suggested_filename |-> suggested_filename_of(filename_from_url_decoded,
                                                  file_extension)]

\* lines 380-389
Adjusted(base_app_name_for_tracking_id, download_url, filename_from_url_decoded,
         current_version, matched, file_extension, link_only_variant_parts) ==
    Identified(base_app_name_for_tracking_id, download_url, filename_from_url_decoded,
               current_version, matched, file_extension, link_only_variant_parts,
               variant_final_for_display_tracking(link_only_variant_parts,
                                                  file_extension))

\* lines 374-378
Typed(base_app_name_for_tracking_id, download_url, filename_from_url_decoded,
      current_version, matched, file_extension) ==
    Adjusted(base_app_name_for_tracking_id, download_url, filename_from_url_decoded,
             current_version, matched, file_extension,
             AdjustForExe(matched, file_extension))

\* lines 335, 362-371
Scanned(base_app_name_for_tracking_id, download_url, link_text,
        filename_from_url_decoded, scan) ==
    Typed(base_app_name_for_tracking_id, download_url, filename_from_url_decoded,
          extract_version_from_text_or_url(link_text, filename_from_url_decoded),
          MatchVariants(scan, 1, <<>>),
          get_file_extension_from_url(filename_from_url_decoded, scan))

\* lines 345-346
Named(base_app_name_for_tracking_id, download_url, link_text,
      filename_from_url_decoded) ==
    Scanned(base_app_name_for_tracking_id, download_url, link_text,
            filename_from_url_decoded,
            combined_text_for_link_variant_detection(filename_from_url_decoded,
                                                     link_text))

\* line 334
Linked(base_app_name_for_tracking_id, download_url, link_text) ==
    Named(base_app_name_for_tracking_id, download_url, link_text,
          LastSegment(download_url))

\* lines 329-331
artifact_of(page, li) ==
    Linked(page.base_app_name_for_tracking_id, page.page_url \o li.href,
           IF li.txt # None THEN Strip(li.txt, {" "}) ELSE "")

\* the dict of lines 428-437
update_record(page, a) ==
    [app_name |-> page.page_app_name_for_display,
     version |-> a.current_version,
     variant |-> a.variant,
     download_url |-> a.download_url,
     page_url |-> page.page_url,
     tracking_id |-> a.tracking_id,
     suggested_filename |-> a.suggested_filename,
     current_version_for_tracking |-> a.current_version]

\* lines 425-439: the comparison against the ledger's entry, and the record
\* appended when the version is newer
Report(page, a, newer) ==
    IF newer.raised THEN Raise
    ELSE IF newer.value THEN Return(<<update_record(page, a)>>)
    ELSE Return(<<>>)

compare_and_report(page, a, tracker_data) ==
    Report(page, a, compare_versions(a.current_version,
                                     Get(tracker_data, a.tracking_id, "0.0.0")))

\* one turn of the loop without the guard of line 327: link_tag['href'] of
\* an item that has no anchor or no href raises
scrape_li_without_guard(page, li, tracker_data) ==
    LET Handle(a) ==
            IF Falsy(a.current_version) THEN Return(<<>>)
            ELSE compare_and_report(page, a, tracker_data)
    IN  IF ~li.link_tag \/ Falsy(li.href) THEN Raise
        ELSE Handle(artifact_of(page, li))

\* one turn of the loop of lines 324-439: the records it appends
scrape_li(page, li, tracker_data) ==
    LET Handle(a) ==
            IF Falsy(a.current_version) THEN Return(<<>>)
            ELSE compare_and_report(page, a, tracker_data)
    IN  IF ~li.link_tag \/ Falsy(li.href) THEN Return(<<>>)
        ELSE Handle(artifact_of(page, li))

\* the loop of lines 324-439 from item i on
RECURSIVE scrape_lis(_, _, _, _)
scrape_lis(page, i, tracker_data, updates_found_on_page) ==
    LET Appended(r) ==
            IF r.raised THEN Raise
            ELSE scrape_lis(page, i + 1, tracker_data, updates_found_on_page \o r.value)
    IN  IF i > Len(page.found_lis) THEN Return(updates_found_on_page)
        ELSE Appended(scrape_li(page, page.found_lis[i], tracker_data))

scrape_farsroid_page(page, tracker_data) ==
    IF ~page.download_box THEN Return(<<>>)
    ELSE IF ~page.download_links_ul THEN Return(<<>>)
    ELSE IF page.found_lis = <<>> THEN Return(<<>>)
    ELSE scrape_lis(page, 1, tracker_data, <<>>)

(***************************************************************************)
(* main: the ledger and the run loop                                       *)
(***************************************************************************)

EmptyLedger == [k \in {} |-> ""]

\* d[key] = value on a copy of d
Put(d, key, value) == [k \in DOMAIN d \cup {key} |-> IF k = key THEN value ELSE d[k]]

\* load_tracker: a missing or corrupt file gives the empty ledger
load_tracker(file) == IF file.state = "ok" THEN file.data ELSE EmptyLedger

\* lines 494-495 with the first record of a key deciding: a key already
\* merged keeps its value
RECURSIVE MergeUpdatesFirstWins(_, _, _)
MergeUpdatesFirstWins(new_tracker_data_for_save, all_updates, i) ==
    IF i > Len(all_updates) THEN new_tracker_data_for_save
    ELSE IF \E j \in 1..(i - 1) : all_updates[j].tracking_id = all_updates[i].tracking_id
    THEN MergeUpdatesFirstWins(new_tracker_data_for_save, all_updates, i + 1)
    ELSE MergeUpdatesFirstWins(Put(new_tracker_data_for_save, all_updates[i].tracking_id,
                                   all_updates[i].current_version_for_tracking),
                               all_updates, i + 1)

\* lines 494-495 from record i on
RECURSIVE MergeUpdates(_, _, _)
MergeUpdates(new_tracker_data_for_save, all_updates, i) ==
    IF i > Len(all_updates) THEN new_tracker_data_for_save
    ELSE MergeUpdates(Put(new_tracker_data_for_save, all_updates[i].tracking_id,
                          all_updates[i].current_version_for_tracking),
                      all_updates, i + 1)

\* lines 493-495
new_tracker_data_for_save(tracker, all_updates) == MergeUpdates(tracker, all_updates, 1)

\* line 484
is_farsroid(page_url) == Contains(lower(page_url), "farsroid.com")

(***************************************************************************)
(* Inputs                                                                  *)
(***************************************************************************)

\* the most URLs in urls_to_check.txt
MaxPages == 3

\* the most li.download-link items on a page
MaxLinks == 2

\* the longest version string the comparator is given, beyond the examples
MaxVersionLen == 3

\* the most words in a link text
MaxWords == 2

\* the strings of length n over the characters cs
RECURSIVE StringsOfLen(_, _)
StringsOfLen(cs, n) ==
    IF n = 0 THEN {""} ELSE {c \o t : c \in cs, t \in StringsOfLen(cs, n - 1)}

StringsUpTo(cs, n) == UNION {StringsOfLen(cs, k) : k \in 0..n}

\* the sequences of length at most n over S
SeqsUpTo(S, n) == UNION {[1..k -> S] : k \in 0..n}

VersionChars == {"0", "1", ".", "a"}

VersionExamples ==
    {"0.0.0", "1.0.0", "1.0", "2.0.0", "1.9.9", "4.9.0", "5.1.0", "5.10.0",
     "build-42", "build-41", "1.0-beta", "1.0B", "v1.0", "5.2.0-arm64.apk"}

\* what compare_versions is called with: None is an absent value
VersionInputs == StringsUpTo(VersionChars, MaxVersionLen) \cup VersionExamples \cup {None}

ExampleUrl == "https://www.farsroid.com/example-app/"

Link(href, txt) == [link_tag |-> TRUE, href |-> href, txt |-> txt]

\* an li without an a.download-btn
NoAnchor == [link_tag |-> FALSE, href |-> None, txt |-> None]

Page(url, name, lis) ==
    [page_url |-> url, page_app_name_for_display |-> name,
     base_app_name_for_tracking_id |-> base_app_name_for_tracking_id_of(name),
     download_box |-> TRUE, download_links_ul |-> TRUE, found_lis |-> lis]

ExampleLink == Link("example-5.1.0-arm64.apk", "Arm64-v8a 5.1.0")

ExamplePage == Page(ExampleUrl, "Example App", <<ExampleLink>>)

ExampleKey == "exampleapp_arm64_v8a"

Ledger(key, version) == [k \in {key} |-> version]

(***************************************************************************)
(* State                                                                   *)
(*                                                                         *)
(* A run of main():                                                        *)
(*   pc                 where main() stands: "start", "loop", "done"       *)
(*   urls_left          the URLs of urls_to_process not yet visited        *)
(*   tracker_file       versions_tracker.json as the run finds it          *)
(*   tracker_data       the ledger in memory                               *)
(*   all_updates_found  the records collected so far                       *)
(*   last_page          the page whose content the loop handled last       *)
(*   updates_on_page    what scrape_farsroid_page gave for it              *)
(*   saved              what the run wrote to versions_tracker.json        *)
(*   output_json        what the run wrote to updates_found.json           *)
(* A call of one function on its own:                                      *)
(*   args, ret          its arguments and what it returned                 *)
(*   phase              "call" before the call, "returned" after           *)
(***************************************************************************)

VARIABLES pc, urls_left, tracker_file, tracker_data, all_updates_found,
          last_page, updates_on_page, saved, output_json,
          args, ret, phase

mainVars == <<pc, urls_left, tracker_file, tracker_data, all_updates_found,
              last_page, updates_on_page, saved, output_json>>

callVars == <<args, ret, phase>>

vars == <<pc, urls_left, tracker_file, tracker_data, all_updates_found,
          last_page, updates_on_page, saved, output_json, args, ret, phase>>

NotWritten == [written |-> FALSE, data |-> <<>>]

Written(data) == [written |-> TRUE, data |-> data]

NoPage == Page("", "", <<>>)

\* no run of main()
MainIdle ==
    /\ pc = "idle"
    /\ urls_left = 0
    /\ tracker_file = [state |-> "missing", data |-> EmptyLedger]
    /\ tracker_data = EmptyLedger
    /\ all_updates_found = <<>>
    /\ last_page = NoPage
    /\ updates_on_page = Return(<<>>)
    /\ saved = NotWritten
    /\ output_json = NotWritten

\* no call of a function on its own
CallIdle == args = <<>> /\ ret = <<>> /\ phase = "idle"

(***************************************************************************)
(* compare_versions on its own, and the decision of lines 425-439 for an   *)
(* artifact with the version current_v_str whose tracking key the ledger   *)
(* maps to last_v_str (None: the ledger has no entry for the key); the     *)
(* comparison is made both ways round                                      *)
(***************************************************************************)

\* an artifact of the example page with the given version
ProbeArtifact(current_version) ==
    [download_url |-> ExampleUrl \o "example.apk",
     current_version |-> current_version,
     matched |-> <<"Arm64-v8a">>,
     file_extension |-> ".apk",
     link_only_variant_parts |-> <<"Arm64-v8a">>,
     variant |-> "Arm64-v8a",
     tracking_id |-> ExampleKey,
     suggested_filename |-> "example.apk"]

ProbeLedger(last_v_str) ==
    IF last_v_str = None THEN EmptyLedger ELSE Ledger(ExampleKey, last_v_str)

CmpInit ==
    /\ MainIdle
    /\ phase = "call"
    /\ args \in [current_v_str : VersionInputs, last_v_str : VersionInputs]
    /\ ret = <<>>

CmpCall ==
    /\ phase = "call"
    /\ phase' = "returned"
    /\ ret' = [compared |-> compare_versions(args.current_v_str, args.last_v_str),
               swapped |-> compare_versions(args.last_v_str, args.current_v_str),
               reported |-> IF Falsy(args.current_v_str) THEN Return(<<>>)
                            ELSE compare_and_report(ExamplePage,
                                                    ProbeArtifact(args.current_v_str),
                                                    ProbeLedger(args.last_v_str))]
    /\ UNCHANGED <<args, mainVars>>

CmpNext == CmpCall

SpecCmp == CmpInit /\ [][CmpNext]_vars

(***************************************************************************)
(* Properties of compare_versions (is_newer), under SpecCmp                *)
(***************************************************************************)

CmpReturned == phase = "returned"

\* a value that is absent or the empty string
AbsentOrEmpty(x) == x \in {None, ""}

\* current and last as the try statement of lines 95-109 sees them
CmpInScope(current_v_str, last_v_str) ==
    ~AbsentOrEmpty(current_v_str) /\ ~AbsentOrEmpty(last_v_str) /\ last_v_str # "0.0.0"

BothParse(current_v_str, last_v_str) ==
    parse(current_v_str).valid /\ parse(last_v_str).valid

\* C1 as stated: for every non-empty v, is_newer(v, v) is false, and an
\* artifact whose version is the one the ledger stores under its tracking key
\* gives no update record.
C1_SameVersionNeverNewer ==
    (CmpReturned /\ ~AbsentOrEmpty(args.current_v_str) /\ args.last_v_str = args.current_v_str)
        => /\ ~ret.compared.raised /\ ret.compared.value = FALSE
           /\ ~ret.reported.raised /\ ret.reported.value = <<>>

\* C1, amended: for every non-empty v other than the sentinel "0.0.0",
\* is_newer(v, v) is false, and an artifact whose version is the one the
\* ledger stores under its tracking key gives no update record.
C1_SameVersionNotNewerUnlessSentinel ==
    (/\ CmpReturned
     /\ ~AbsentOrEmpty(args.current_v_str)
     /\ args.current_v_str # "0.0.0"
     /\ args.last_v_str = args.current_v_str)
        => /\ ~ret.compared.raised /\ ret.compared.value = FALSE
           /\ ~ret.reported.raised /\ ret.reported.value = <<>>

\* the ledger holds 5.1.0 for the key and the page offers 5.1.0: no record
C1_Witness ==
    /\ CmpReturned
    /\ args.current_v_str = "5.1.0" /\ args.last_v_str = "5.1.0"
    /\ ret.compared = Return(FALSE)
    /\ ~ret.reported.raised /\ ret.reported.value = <<>>

\* C2: is_newer(current, last) is false whenever current is absent or empty,
\* whatever last is, and true whenever current is non-empty and last is
\* absent, empty or the sentinel "0.0.0".
C2_AbsentCurrentAndFirstSeen ==
    CmpReturned =>
        /\ AbsentOrEmpty(args.current_v_str) => ret.compared = Return(FALSE)
        /\ (/\ ~AbsentOrEmpty(args.current_v_str)
            /\ (AbsentOrEmpty(args.last_v_str) \/ args.last_v_str = "0.0.0"))
               => ret.compared = Return(TRUE)

\* a first-seen artifact: the ledger has no entry and the record is made
C2_Witness ==
    /\ CmpReturned
    /\ args.current_v_str = "1.0" /\ args.last_v_str = None
    /\ ret.compared = Return(TRUE)
    /\ ~ret.reported.raised /\ Len(ret.reported.value) = 1

C4_FallbackIsStringOrder ==
    (/\ CmpReturned
     /\ CmpInScope(args.current_v_str, args.last_v_str)
     /\ ~BothParse(args.current_v_str, args.last_v_str))
        => /\ ~ret.compared.raised
           /\ ret.compared.value <=>
                (/\ args.current_v_str # args.last_v_str
                 /\ StrLess(args.last_v_str, args.current_v_str))

\* build-42 against build-41: neither parses, true one way and false the other
C4_Witness ==
    /\ CmpReturned
    /\ args.current_v_str = "build-42" /\ args.last_v_str = "build-41"
    /\ ~parse("build-42").valid
    /\ ret.compared = Return(TRUE)
    /\ ret.swapped = Return(FALSE)

(***************************************************************************)
(* scrape_farsroid_page (process_page) on its own: one page and one ledger *)
(***************************************************************************)

\* the items a page is made of: the example's link, an item without an
\* anchor, an anchor without an href, a link with no version in its text or
\* its name, a link without a span.txt, and an older build of the example
LinkCatalog ==
    {ExampleLink,
     NoAnchor,
     Link(None, "Arm64-v8a 5.3.0"),
     Link("setup.exe", "Windows"),
     Link("example-5.2.0-arm64.apk", None),
     Link("example-5.0.0-arm64.apk", "Arm64-v8a 5.0.0")}

\* the key the claim about the example names
ClaimedExampleKey == "example_app_arm64_v8a"

LedgerCatalog ==
    {EmptyLedger,
     Ledger(ExampleKey, "4.9.0"),
     Ledger(ExampleKey, "5.1.0"),
     Ledger(ClaimedExampleKey, "4.9.0")}

\* the example's page without its section.downloadbox (line 316)
PageWithoutBox ==
    [Page(ExampleUrl, "Example App", <<>>) EXCEPT !.download_box = FALSE,
                                                  !.download_links_ul = FALSE]

\* the example's page without its ul.download-links (line 318)
PageWithoutList ==
    [Page(ExampleUrl, "Example App", <<>>) EXCEPT !.download_links_ul = FALSE]

\* the example's page with every list of at most MaxLinks items, the empty
\* one (line 320) among them
PageCatalog ==
    {PageWithoutBox, PageWithoutList}
        \cup {Page(ExampleUrl, "Example App", lis) : lis \in SeqsUpTo(LinkCatalog, MaxLinks)}

PageInit ==
    /\ MainIdle
    /\ phase = "call"
    /\ args \in [page : PageCatalog, tracker_data : LedgerCatalog]
    /\ ret = <<>>

PageCall ==
    /\ phase = "call"
    /\ phase' = "returned"
    /\ ret' = scrape_farsroid_page(args.page, args.tracker_data)
    /\ UNCHANGED <<args, mainVars>>

PageNext == PageCall

SpecPage == PageInit /\ [][PageNext]_vars

(***************************************************************************)
(* Properties of scrape_farsroid_page, under SpecPage                      *)
(***************************************************************************)

PageReturned == phase = "returned"

\* the example's ledger: 4.9.0 stored for the example's Arm64-v8a variant
ExampleLedgers == {Ledger(ExampleKey, "4.9.0"), Ledger(ClaimedExampleKey, "4.9.0")}

\* one record, for version 5.1.0 of the variant Arm64-v8a, under the key
OneExampleRecord(key) ==
    /\ ~ret.raised
    /\ Len(ret.value) = 1
    /\ ret.value[1].tracking_id = key
    /\ ret.value[1].version = "5.1.0"
    /\ ret.value[1].variant = "Arm64-v8a"

\* C8 as stated: the example page, with 4.9.0 in the ledger, gives exactly
\* one update record, with tracking key "example_app_arm64_v8a", version
\* "5.1.0" and variant "Arm64-v8a".
C8_ExampleKeyKeepsWordBreak ==
    (PageReturned /\ args.page = ExamplePage /\ args.tracker_data \in ExampleLedgers)
        => OneExampleRecord("example_app_arm64_v8a")

\* C8, amended: the example page, with 4.9.0 in the ledger, gives exactly one
\* update record, with tracking key "exampleapp_arm64_v8a" (the space of the
\* base name is dropped, not turned into "_"), version "5.1.0" and variant
\* "Arm64-v8a".
C8_ExampleGivesOneRecord ==
    (PageReturned /\ args.page = ExamplePage /\ args.tracker_data \in ExampleLedgers)
        => OneExampleRecord("exampleapp_arm64_v8a")

C8_Witness ==
    /\ PageReturned
    /\ args.page = ExamplePage
    /\ args.tracker_data = Ledger(ExampleKey, "4.9.0")
    /\ OneExampleRecord(ExampleKey)

\* the page with only item i of its list
OnlyItem(page, i) == [page EXCEPT !.found_lis = <<page.found_lis[i]>>]

\* no anchor, no href, or no version in the link's text or its name
Unusable(li) ==
    \/ ~li.link_tag
    \/ AbsentOrEmpty(li.href)
    \/ AbsentOrEmpty(extract_version_from_text_or_url(
                 IF li.txt # None THEN Strip(li.txt, {" "}) ELSE "", li.href))

\* what the items from i on give, each one taken alone, in document order
RECURSIVE ItemByItem(_, _, _)
ItemByItem(page, tracker, i) ==
    IF i > Len(page.found_lis) THEN <<>>
    ELSE (IF Unusable(page.found_lis[i]) THEN <<>>
          ELSE scrape_farsroid_page(OnlyItem(page, i), tracker).value)
         \o ItemByItem(page, tracker, i + 1)

\* C9: missing data is not fatal and costs only the unit it is missing from:
\* without the download section, the list or the items the result is the
\* empty list and nothing is raised; an item with no anchor, no href or no
\* version gives no record, and every other item gives what it gives alone,
\* in document order.
C9_MissingDataSkipsOnlyItsUnit ==
    PageReturned =>
        /\ ~ret.raised
        /\ (\/ ~args.page.download_box
            \/ ~args.page.download_links_ul
            \/ args.page.found_lis = <<>>) => ret.value = <<>>
        /\ ret.value = ItemByItem(args.page, args.tracker_data, 1)

\* an item without an anchor, then the example's link: the second is reported
C9_Witness ==
    /\ PageReturned
    /\ args.page.found_lis = <<NoAnchor, ExampleLink>>
    /\ args.tracker_data = Ledger(ExampleKey, "4.9.0")
    /\ ~ret.raised
    /\ Len(ret.value) = 1
    /\ ret.value[1].version = "5.1.0"

(***************************************************************************)
(* What lines 329-408 derive from a link, for two links one after another  *)
(* (two artifacts of one page or of two pages)                             *)
(***************************************************************************)

\* the words a link text is made of
VariantWords == {"windows", "data"}

\* the link texts: at most MaxWords words with a space between them
RECURSIVE TextsOfWords(_)
TextsOfWords(n) ==
    IF n = 0 THEN {""}
    ELSE {w : w \in VariantWords}
         \cup {w \o " " \o t : w \in VariantWords, t \in TextsOfWords(n - 1) \ {""}}
         \cup TextsOfWords(n - 1)

\* the names of the files: one has no extension the code knows, one has a
\* keyword of the table in it
ArtifactFiles == {"app-1.0.apk", "app-1.0.exe", "app-1.0.zip", "app-1.0", "pc-1.0.exe"}

ArtifactNames == {"Foo", "Bar"}

\* a link of a page: its page stands for the canonical base name alone
ArtifactInputs(names) ==
    {[page |-> Page(ExampleUrl, name, <<>>), li |-> Link(file, text)] :
        name \in names, file \in ArtifactFiles, text \in TextsOfWords(MaxWords)}

ArtifactInit ==
    /\ MainIdle
    /\ phase = "call"
    /\ args \in {<<in>> : in \in ArtifactInputs({"Foo"})}
    /\ ret = <<>>

\* the first link
ArtifactFirst ==
    /\ phase = "call"
    /\ phase' = "first"
    /\ ret' = <<artifact_of(args[1].page, args[1].li)>>
    /\ UNCHANGED <<args, mainVars>>

\* a second link, of the same page or of another
ArtifactSecond ==
    /\ phase = "first"
    /\ phase' = "second"
    /\ \E in \in ArtifactInputs(ArtifactNames) :
          /\ args' = Append(args, in)
          /\ ret' = Append(ret, artifact_of(in.page, in.li))
    /\ UNCHANGED mainVars

ArtifactNext == ArtifactFirst \/ ArtifactSecond

SpecArtifact == ArtifactInit /\ [][ArtifactNext]_vars

(***************************************************************************)
(* Properties of the variant and of the tracking key, under SpecArtifact   *)
(***************************************************************************)

TwoArtifacts == phase = "second"

SameBaseName ==
    args[1].page.base_app_name_for_tracking_id = args[2].page.base_app_name_for_tracking_id

\* C7 as stated: two artifacts that agree on the canonical base name and on
\* the set of matched variant tags have the same tracking key.
C7_KeyFromNameAndMatchedTags ==
    (/\ TwoArtifacts
     /\ SameBaseName
     /\ SeqToSet(ret[1].matched) = SeqToSet(ret[2].matched))
        => ret[1].tracking_id = ret[2].tracking_id

\* C7, amended: two artifacts that agree on the canonical base name, on the
\* set of variant tags as it stands after the adjustment for a Windows
\* executable (lines 374-378), and on whether the resolved extension is .apk,
\* have the same tracking key, whatever the order of the tags.
C7_KeyFromNameTagsAndApk ==
    (/\ TwoArtifacts
     /\ SameBaseName
     /\ SeqToSet(ret[1].link_only_variant_parts) = SeqToSet(ret[2].link_only_variant_parts)
     /\ (ret[1].file_extension = ".apk") <=> (ret[2].file_extension = ".apk"))
        => ret[1].tracking_id = ret[2].tracking_id

\* the same two tags in two orders: Windows matched before Data, and Windows
\* appended after Data for an .exe
C7_Witness ==
    /\ TwoArtifacts
    /\ SameBaseName
    /\ ret[1].link_only_variant_parts = <<"Windows", "Data">>
    /\ ret[2].link_only_variant_parts = <<"Data", "Windows">>
    /\ ret[1].file_extension = ".zip" /\ ret[2].file_extension = ".exe"
    /\ ret[1].tracking_id = "foo_data_windows"
    /\ ret[2].tracking_id = "foo_data_windows"

\* C10: an artifact whose scan text matches no keyword of the table has the
\* variant "Universal" when its extension is .apk, "Windows" when it is .exe
\* and "Default" otherwise; and no artifact has the empty variant.
C10_VariantDefaults ==
    \A i \in 1..Len(ret) :
        /\ ret[i].variant # ""
        /\ ret[i].matched = <<>> =>
              ret[i].variant = IF ret[i].file_extension = ".apk" THEN "Universal"
                               ELSE IF ret[i].file_extension = ".exe" THEN "Windows"
                               ELSE "Default"

\* no keyword and an .apk, then no keyword and an .exe
C10_Witness ==
    /\ TwoArtifacts
    /\ ret[1].matched = <<>> /\ ret[1].file_extension = ".apk"
    /\ ret[1].variant = "Universal"
    /\ ret[2].matched = <<>> /\ ret[2].file_extension = ".exe"
    /\ ret[2].variant = "Windows"

(***************************************************************************)
(* main: a run over the URLs of urls_to_check.txt                          *)
(*                                                                         *)
(* versions_tracker.json holds a JSON object of strings, which json.dump   *)
(* and json.load give back as it was; saved is the object handed to        *)
(* json.dump at line 502.                                                  *)
(***************************************************************************)

\* the example's page with two links of the same variant, the newer first
TwoBuildsPage ==
    Page(ExampleUrl, "Example App",
         <<Link("example-5.2.0-arm64.apk", "Arm64-v8a 5.2.0"),
           Link("example-5.0.0-arm64.apk", "Arm64-v8a 5.0.0")>>)

\* a page of another application: a Windows installer and an anchor without
\* an href
OtherPage ==
    Page("https://www.farsroid.com/other/", "Other",
         <<Link("other-2.0.exe", "Windows 2.0"), Link(None, "Data 2.0")>>)

\* the example's page on another site (line 487)
ForeignPage == Page("https://example.org/example-app/", "Example App", <<ExampleLink>>)

\* what the URLs of a run lead to
MainPages == {ExamplePage, TwoBuildsPage, OtherPage, PageWithoutBox, ForeignPage}

\* 4.9.0 for the example's variant, and the key of an application that no
\* page of the run offers
ExampleLedger == Put(Ledger(ExampleKey, "4.9.0"), "legacy_key", "1.0")

\* versions_tracker.json as a run finds it
TrackerFiles ==
    {[state |-> "missing", data |-> EmptyLedger],
     [state |-> "corrupt", data |-> EmptyLedger],
     [state |-> "ok", data |-> EmptyLedger],
     [state |-> "ok", data |-> ExampleLedger],
     [state |-> "ok", data |-> Ledger(ExampleKey, "5.1.0")]}

Init ==
    /\ CallIdle
    /\ pc = "start"
    /\ urls_left = 0
    /\ tracker_file \in TrackerFiles
    /\ tracker_data = EmptyLedger
    /\ all_updates_found = <<>>
    /\ last_page = NoPage
    /\ updates_on_page = Return(<<>>)
    /\ saved = NotWritten
    /\ output_json = NotWritten

\* lines 443-448: no urls_to_check.txt
NoUrlFile ==
    /\ pc = "start"
    /\ pc' = "exit"
    /\ output_json' = Written(<<>>)
    /\ UNCHANGED <<urls_left, tracker_file, tracker_data, all_updates_found, last_page,
                   updates_on_page, saved, callVars>>

\* lines 463-468: no URL in urls_to_check.txt
NoUrls ==
    /\ pc = "start"
    /\ pc' = "done"
    /\ output_json' = Written(<<>>)
    /\ UNCHANGED <<urls_left, tracker_file, tracker_data, all_updates_found, last_page,
                   updates_on_page, saved, callVars>>

\* lines 450-471: the URLs read, the ledger loaded
LoadTracker ==
    /\ pc = "start"
    /\ pc' = "loop"
    /\ \E n \in 1..MaxPages : urls_left' = n
    /\ tracker_data' = load_tracker(tracker_file)
    /\ all_updates_found' = <<>>
    /\ UNCHANGED <<tracker_file, last_page, updates_on_page, saved, output_json, callVars>>

\* lines 476-480: no content for the URL
PageNotFetched ==
    /\ pc = "loop" /\ urls_left > 0
    /\ urls_left' = urls_left - 1
    /\ last_page' = NoPage
    /\ updates_on_page' = Return(<<>>)
    /\ UNCHANGED <<pc, tracker_file, tracker_data, all_updates_found, saved, output_json,
                   callVars>>

\* lines 481-490: the try block raises before line 486, and line 489 catches
PageRaises ==
    /\ pc = "loop" /\ urls_left > 0
    /\ urls_left' = urls_left - 1
    /\ \E page \in MainPages : last_page' = page
    /\ updates_on_page' = Raise
    /\ UNCHANGED <<pc, tracker_file, tracker_data, all_updates_found, saved, output_json,
                   callVars>>

\* lines 481-491: the page scraped, its records appended
PageProcessed ==
    /\ pc = "loop" /\ urls_left > 0
    /\ urls_left' = urls_left - 1
    /\ \E page \in MainPages :
          /\ last_page' = page
          /\ updates_on_page' = IF is_farsroid(page.page_url)
                                THEN scrape_farsroid_page(page, tracker_data)
                                ELSE Return(<<>>)
    /\ all_updates_found' = IF updates_on_page'.raised THEN all_updates_found
                            ELSE all_updates_found \o updates_on_page'.value
    /\ UNCHANGED <<pc, tracker_file, tracker_data, saved, output_json, callVars>>

\* lines 493-505: the records merged into a copy of the ledger, both files
\* written
Save ==
    /\ pc = "loop" /\ urls_left = 0
    /\ pc' = "done"
    /\ output_json' = Written(all_updates_found)
    /\ saved' = Written(new_tracker_data_for_save(tracker_data, all_updates_found))
    /\ UNCHANGED <<urls_left, tracker_file, tracker_data, all_updates_found, last_page,
                   updates_on_page, callVars>>

\* lines 493-505, the write of lines 501-502 raising: line 504 catches
SaveFails ==
    /\ pc = "loop" /\ urls_left = 0
    /\ pc' = "done"
    /\ output_json' = Written(all_updates_found)
    /\ UNCHANGED <<urls_left, tracker_file, tracker_data, all_updates_found, last_page,
                   updates_on_page, saved, callVars>>

Next ==
    \/ NoUrlFile
    \/ NoUrls
    \/ LoadTracker
    \/ PageNotFetched
    \/ PageRaises
    \/ PageProcessed
    \/ Save
    \/ SaveFails

Spec == Init /\ [][Next]_vars

(***************************************************************************)
(* Properties of a run, under Spec                                         *)
(***************************************************************************)

\* record i is the last one of its tracking key among the records so far
LastOfItsKey(i) ==
    \A j \in (i + 1)..Len(all_updates_found) :
        all_updates_found[j].tracking_id # all_updates_found[i].tracking_id

\* C5: between two pages the ledger in memory maps the tracking key of every
\* update record produced so far to that record's version (the latest record
\* of a key deciding), so that the next page is compared against it.
C5_LedgerFollowsRecords ==
    pc = "loop" =>
        \A i \in 1..Len(all_updates_found) :
            LastOfItsKey(i) =>
                /\ all_updates_found[i].tracking_id \in DOMAIN tracker_data
                /\ tracker_data[all_updates_found[i].tracking_id]
                       = all_updates_found[i].version

\* the example's page visited twice with 4.9.0 in the ledger: 5.1.0 is
\* reported both times, the second time against 4.9.0 again
C5_Witness ==
    /\ pc = "loop"
    /\ tracker_data = ExampleLedger
    /\ last_page = ExamplePage
    /\ Len(all_updates_found) = 2
    /\ all_updates_found[1].tracking_id = ExampleKey
    /\ all_updates_found[2].tracking_id = ExampleKey
    /\ all_updates_found[1].version = "5.1.0"
    /\ all_updates_found[2].version = "5.1.0"

\* the ledger the run loaded
LoadedLedger == IF tracker_file.state = "ok" THEN tracker_file.data ELSE EmptyLedger

RecordedKeys == {all_updates_found[i].tracking_id : i \in 1..Len(all_updates_found)}

\* the version of the last record of key k
LastVersionOf(k) ==
    all_updates_found[CHOOSE i \in 1..Len(all_updates_found) :
                          all_updates_found[i].tracking_id = k /\ LastOfItsKey(i)].version

\* a run over at least one URL has ended and has written the ledger
LedgerPersisted == pc = "done" /\ saved.written

\* C6: at the end of a run over a non-empty list of pages, the ledger written
\* is the ledger loaded with the tracking key of every update record mapped
\* to the record's version, the last record of a key deciding; a key with no
\* record keeps its loaded value and no key is removed, whatever happened to
\* the pages.
C6_SavedIsLoadedMergedWithRecords ==
    LedgerPersisted =>
        /\ DOMAIN saved.data = DOMAIN LoadedLedger \cup RecordedKeys
        /\ \A k \in RecordedKeys : saved.data[k] = LastVersionOf(k)
        /\ \A k \in DOMAIN LoadedLedger \ RecordedKeys : saved.data[k] = LoadedLedger[k]

\* two records of one key, the older version last, a key without a record,
\* and a page that gave nothing
C6_Witness ==
    /\ LedgerPersisted
    /\ LoadedLedger = ExampleLedger
    /\ last_page = PageWithoutBox
    /\ Len(all_updates_found) = 2
    /\ all_updates_found[1].version = "5.2.0"
    /\ all_updates_found[2].version = "5.0.0"
    /\ saved.data = Put(Ledger(ExampleKey, "5.0.0"), "legacy_key", "1.0")

(***************************************************************************)
(* extract_version_from_text_or_url on its own                             *)
(***************************************************************************)

\* the longest text of the inputs
MaxTextLen == 4

ExtractChars == {"a", "v", "1", ".", "-", " "}

ExtractTexts == StringsUpTo(ExtractChars, MaxTextLen) \cup {"abc123def", None}

ExtractUrls == {None, "", "a1.1", "f/a-1.1.1-a.apk"}

ExtractInit ==
    /\ MainIdle
    /\ phase = "call"
    /\ args \in [text_content : ExtractTexts, url_content : ExtractUrls]
    /\ ret = <<>>

ExtractCall ==
    /\ phase = "call"
    /\ phase' = "returned"
    /\ ret' = [version |-> extract_version_from_text_or_url(args.text_content,
                                                            args.url_content),
               by |-> returned_by(args.text_content, args.url_content)]
    /\ UNCHANGED <<args, mainVars>>

ExtractNext == ExtractCall

SpecExtract == ExtractInit /\ [][ExtractNext]_vars

(***************************************************************************)
(* Properties of extract_version, under SpecExtract                        *)
(***************************************************************************)

ExtractReturned == phase = "returned"

\* the inputs that are strings
ExtractSources == {args.text_content, args.url_content} \ {None}

LetterOrDigit(c) == c \in UpperSet \cup LowerSet \cup DigitChars

\* the places of s where v stands
Occurrences(v, s) == {p \in 1..(Len(s) - Len(v) + 1) : SubSeq(s, p, p + Len(v) - 1) = v}

\* no letter or digit on either side of the Len(v) characters of s from p
AloneInToken(s, p, v) ==
    /\ p = 1 \/ ~LetterOrDigit(CharAt(s, p - 1))
    /\ p + Len(v) > Len(s) \/ ~LetterOrDigit(CharAt(s, p + Len(v)))

\* no letter, digit, underscore, dot or dash before position p of s
FreeBefore(s, p) == p = 1 \/ ~(LetterOrDigit(CharAt(s, p - 1)) \/ CharAt(s, p - 1) \in {"_", ".", "-"})

\* the Len(v) characters of s from p, with a v or V before them if there is
\* one, have no letter, digit, underscore, dot or dash before them and no
\* letter, digit, underscore or dot after them
BoundedInToken(s, p, v) ==
    /\ \/ FreeBefore(s, p)
       \/ p > 1 /\ CharAt(s, p - 1) \in {"v", "V"} /\ FreeBefore(s, p - 1)
    /\ p + Len(v) > Len(s)
          \/ ~(LetterOrDigit(CharAt(s, p + Len(v))) \/ CharAt(s, p + Len(v)) \in {"_", "."})

\* C11 as stated: for every text and url, the version that extract_version
\* returns stands in the text or the url with no letter or digit immediately
\* before or after it; "abc123def" gives no version.
C11_VersionNeverInsideToken ==
    ExtractReturned =>
        /\ ret.version # None =>
               \E s \in ExtractSources : \E p \in Occurrences(ret.version, s) :
                   AloneInToken(s, p, ret.version)
        /\ args.text_content = "abc123def" /\ AbsentOrEmpty(args.url_content) =>
               ret.version = None

\* C11, amended: a version returned by one of the two version patterns stands
\* in the text or the url so that, taken with a leading v or V if it has one,
\* it has no letter, digit, underscore, dot or dash immediately before it and
\* no letter, digit, underscore or dot immediately after it; "abc123def" gives
\* no version; the fallback pattern is not bounded.
C11_PatternVersionIsBounded ==
    ExtractReturned =>
        /\ ret.by = "pattern" =>
               /\ ret.version # None
               /\ \E s \in ExtractSources : \E p \in Occurrences(ret.version, s) :
                      BoundedInToken(s, p, ret.version)
        /\ ret.by = "none" <=> ret.version = None
        /\ args.text_content = "abc123def" /\ AbsentOrEmpty(args.url_content) =>
               ret.version = None

\* a pattern returned the version that follows a leading v
C11_Witness ==
    /\ ExtractReturned
    /\ args.text_content = "v1.1"
    /\ args.url_content = "a1.1"
    /\ ret = [version |-> "1.1", by |-> "pattern"]

(***************************************************************************)
(* aggressively_clean_name_for_tracking on its own: the display name of an *)
(* application, then the display name of the same application with another *)
(* version number in it or with its variant keyword on the other side of   *)
(* the version                                                             *)
(***************************************************************************)

\* the most dot-separated components of a version number in a display name
MaxComponents == 3

\* version numbers as display names carry them: v or no v, then one to
\* MaxComponents components
NameVersions ==
    {v \o first \o SubSeq(".2.1.0.5.6", 1, 2 * more) :
        v \in {"", "v"}, first \in {"3", "4"}, more \in 0..(MaxComponents - 1)}

NameApps == {"Super App"}

\* no variant keyword, or one of the table
NameKeywords == {"", "Mod-Extra", "Pro"}

\* the words that are there, with one space between them
JoinWords(a, b, c) ==
    a \o (IF b = "" THEN "" ELSE " " \o b) \o (IF c = "" THEN "" ELSE " " \o c)

display_name(n) ==
    IF n.keyword_first THEN JoinWords(n.app, n.keyword, n.version)
    ELSE JoinWords(n.app, n.version, n.keyword)

NameInit ==
    /\ MainIdle
    /\ phase = "first"
    /\ args \in [app : NameApps, keyword : NameKeywords, version : NameVersions,
                 keyword_first : BOOLEAN]
    /\ ret = <<>>

NameFirst ==
    /\ phase = "first"
    /\ phase' = "named"
    /\ ret' = <<aggressively_clean_name_for_tracking(display_name(args))>>
    /\ UNCHANGED <<args, mainVars>>

\* the application's page after a version bump
NameOfNextVersion ==
    /\ phase = "named"
    /\ phase' = "bumped"
    /\ \E version \in NameVersions \ {args.version} :
           /\ args' = <<args, [args EXCEPT !.version = version]>>
           /\ ret' = Append(ret, aggressively_clean_name_for_tracking(
                                     display_name([args EXCEPT !.version = version])))
    /\ UNCHANGED mainVars

\* the same name with the keyword on the other side of the version
NameWithKeywordMoved ==
    /\ phase = "named"
    /\ args.keyword # ""
    /\ phase' = "moved"
    /\ args' = <<args, [args EXCEPT !.keyword_first = ~args.keyword_first]>>
    /\ ret' = Append(ret, aggressively_clean_name_for_tracking(
                              display_name([args EXCEPT !.keyword_first =
                                                            ~args.keyword_first])))
    /\ UNCHANGED mainVars

NameNext == NameFirst \/ NameOfNextVersion \/ NameWithKeywordMoved

SpecName == NameInit /\ [][NameNext]_vars

(***************************************************************************)
(* Properties of canonicalize, under SpecName                              *)
(***************************************************************************)

TwoNames == phase \in {"bumped", "moved"}

\* the two names give one base name, and with it one tracking key for a variant
SameIdentity ==
    /\ ret[1] = ret[2]
    /\ tracking_id_of(ret[1], "Arm64-v8a", ".apk") = tracking_id_of(ret[2], "Arm64-v8a", ".apk")

\* a version number of two or more dot-separated components, with or without
\* a leading v, or a bare number without a leading v
DottedOrBare(version) == Head(version) # "v" \/ \E i \in 1..Len(version) : CharAt(version, i) = "."

RerunUrls == SeqsUpTo(MainPages, MaxPages) \ {<<>>}

RerunInit ==
    /\ pc = "start"
    /\ urls_left = 0
    /\ tracker_file \in TrackerFiles
    /\ tracker_data = EmptyLedger
    /\ all_updates_found = <<>>
    /\ last_page = NoPage
    /\ updates_on_page = Return(<<>>)
    /\ saved = NotWritten
    /\ output_json = NotWritten
    /\ args \in RerunUrls
    /\ ret = <<>>
    /\ phase = "first"

\* lines 450-471
RerunLoadTracker ==
    /\ pc = "start"
    /\ pc' = "loop"
    /\ urls_left' = Len(args)
    /\ tracker_data' = load_tracker(tracker_file)
    /\ all_updates_found' = <<>>
    /\ UNCHANGED <<tracker_file, last_page, updates_on_page, saved, output_json, callVars>>

\* lines 473-491 for the next URL
RerunPageProcessed ==
    /\ pc = "loop" /\ urls_left > 0
    /\ urls_left' = urls_left - 1
    /\ last_page' = args[Len(args) - urls_left + 1]
    /\ updates_on_page' = IF is_farsroid(last_page'.page_url)
                          THEN scrape_farsroid_page(last_page', tracker_data)
                          ELSE Return(<<>>)
    /\ all_updates_found' = IF updates_on_page'.raised THEN all_updates_found
                            ELSE all_updates_found \o updates_on_page'.value
    /\ UNCHANGED <<pc, tracker_file, tracker_data, saved, output_json, callVars>>

\* lines 493-505
RerunSave ==
    /\ pc = "loop" /\ urls_left = 0
    /\ pc' = "done"
    /\ output_json' = Written(all_updates_found)
    /\ saved' = Written(new_tracker_data_for_save(tracker_data, all_updates_found))
    /\ UNCHANGED <<urls_left, tracker_file, tracker_data, all_updates_found, last_page,
                   updates_on_page, callVars>>

\* the next run of the script: versions_tracker.json is what the first run
\* wrote, and ret keeps what the first run found
RunAgain ==
    /\ pc = "done" /\ phase = "first"
    /\ phase' = "second"
    /\ ret' = all_updates_found
    /\ tracker_file' = [state |-> "ok", data |-> saved.data]
    /\ pc' = "start"
    /\ urls_left' = 0
    /\ tracker_data' = EmptyLedger
    /\ all_updates_found' = <<>>
    /\ last_page' = NoPage
    /\ updates_on_page' = Return(<<>>)
    /\ saved' = NotWritten
    /\ output_json' = NotWritten
    /\ UNCHANGED args

RerunNext == RerunLoadTracker \/ RerunPageProcessed \/ RerunSave \/ RunAgain

SpecRerun == RerunInit /\ [][RerunNext]_vars

(***************************************************************************)
(* Properties of two runs, under SpecRerun                                 *)
(***************************************************************************)

SecondRunDone == phase = "second" /\ pc = "done" /\ saved.written

\* C13: a second run over the same unchanged pages, starting from the ledger
\* the first run persisted, produces no update record and writes the ledger
\* it loaded, for every initial ledger and every list of pages, pages with
\* several artifacts of one tracking key and different versions included.
C13_SecondRunIsQuiet ==
    SecondRunDone =>
        /\ all_updates_found = <<>>
        /\ output_json = Written(<<>>)
        /\ saved.data = tracker_file.data

\* the page with 5.2.0 and 5.0.0 for one key: the first run left 5.0.0 in the
\* ledger, the second run reports 5.2.0 again and writes it
C13_Witness ==
    /\ SecondRunDone
    /\ args = <<TwoBuildsPage>>
    /\ Len(ret) = 2
    /\ tracker_file.data[ExampleKey] = "5.0.0"
    /\ Len(all_updates_found) = 1
    /\ all_updates_found[1].version = "5.2.0"
    /\ saved.data[ExampleKey] = "5.2.0"

(***************************************************************************)
(* scrape_farsroid_page for the pages of two applications that offer the   *)
(* same download links, with nothing in the ledger                         *)
(***************************************************************************)

\* display names of pages; none of them holds a version or a keyword
BucketNames == {"Foo", "Foo Bar", "FooBar", "Foo-Bar", "(:)"}

BucketLinks ==
    {Link("app-1.0.apk", "1.0"), Link("app-1.0-arm64.apk", "Arm64 1.0"),
     Link("app-1.0.zip", "Data 1.0")}

BucketPage(name, lis) == Page("https://www.farsroid.com/" \o name \o "/", name, lis)

BucketInit ==
    /\ MainIdle
    /\ phase = "first"
    /\ args \in [names : BucketNames \X BucketNames,
                 lis : SeqsUpTo(BucketLinks, MaxLinks) \ {<<>>}]
    /\ ret = <<>>

BucketFirst ==
    /\ phase = "first"
    /\ phase' = "second"
    /\ ret' = <<scrape_farsroid_page(BucketPage(args.names[1], args.lis), EmptyLedger).value>>
    /\ UNCHANGED <<args, mainVars>>

BucketSecond ==
    /\ phase = "second"
    /\ phase' = "both"
    /\ ret' = Append(ret, scrape_farsroid_page(BucketPage(args.names[2], args.lis),
                                               EmptyLedger).value)
    /\ UNCHANGED <<args, mainVars>>

BucketNext == BucketFirst \/ BucketSecond

SpecBucket == BucketInit /\ [][BucketNext]_vars

(***************************************************************************)
(* Properties of the tracking keys of two pages, under SpecBucket          *)
(***************************************************************************)

BothPagesDone == phase = "both"

\* the canonical base name of page i
BaseNameOf(i) == BucketPage(args.names[i], args.lis).base_app_name_for_tracking_id

\* what is left of a base name in a key: its letters and digits in lower
\* case, its runs of dashes and underscores as one underscore
KeyPartOf(base_name) == sanitize_text_for_tracking_id(base_name)

\* C14: every tracking key of a page with a non-empty canonical base name
\* holds a non-empty part derived from that base name, and two artifacts with
\* the same variant string from pages whose canonical base names differ never
\* get the same ledger key.
C14_NoSharedBucket ==
    BothPagesDone =>
        /\ \A i \in 1..2 : \A n \in 1..Len(ret[i]) :
               BaseNameOf(i) # "" =>
                   /\ KeyPartOf(BaseNameOf(i)) # ""
                   /\ StartsWithAt(ret[i][n].tracking_id, 1, KeyPartOf(BaseNameOf(i)))
        /\ \A m \in 1..Len(ret[1]) : \A n \in 1..Len(ret[2]) :
               BaseNameOf(1) # BaseNameOf(2) /\ ret[1][m].variant = ret[2][n].variant =>
                   ret[1][m].tracking_id # ret[2][n].tracking_id

\* "Foo Bar" and "FooBar": two base names, one key for their APKs
C14_Witness ==
    /\ BothPagesDone
    /\ args.names = <<"Foo Bar", "FooBar">>
    /\ BaseNameOf(1) = "Foo Bar" /\ BaseNameOf(2) = "FooBar"
    /\ Len(ret[1]) = 1 /\ Len(ret[2]) = 1
    /\ ret[1][1].variant = "Universal" /\ ret[2][1].variant = "Universal"
    /\ ret[1][1].tracking_id = "foobar_universal"
    /\ ret[2][1].tracking_id = "foobar_universal"

====
